---- MODULE Spec2Model ----
(***************************************************************************)
(* Verification model of poly-hft: the depth feed and book store           *)
(* (src/orderbook), the tick recorder (src/data) and the live trading loop *)
(* (src/cli/run.rs with the momentum and lag detectors and the paper       *)
(* engine).  Decimals are modelled as integers in a fixed unit; wall-clock *)
(* time is an integer number of seconds.                                   *)
(***************************************************************************)
EXTENDS Integers, Sequences, FiniteSets, TLC

VARIABLES
    books,      \* OrderBookManager.books : token_id -> OrderBook (a HashMap)
    lastMsg,    \* the depth-feed event handled by the last step (history)
    nUpdates,   \* number of depth-feed events handled so far
    now,        \* wall clock (Utc::now), in seconds
    rec_ch,     \* DataRecorder.price_tx / orderbook_tx: the bounded channels
    rec_open,   \* the DataRecorder (the channels' senders) has not been dropped
    wr,         \* locals of run_price_writer / run_orderbook_writer
    pw,         \* ParquetWriter.current_file_start of each writer
    files,      \* output directory: stream -> (file start second -> records)
    stats,      \* AtomicRecorderStats
    write_failed, \* a flush of the stream has returned Err (history)
    next_id,    \* identity of the next record offered to the recorder
    last_call,  \* the last producer call and its result (history)
    dry_run,    \* RunArgs.dry_run
    detector,   \* MomentumDetector: prices, last_direction, direction_start
    active_markets, \* active_markets : condition_id -> Market (a HashMap)
    fills,      \* PaperEngine.fills
    signals_generated, \* local counter of the trading loop
    trades_executed,   \* local counter of the trading loop
    subscribed_tokens, \* tokens the discovery task has subscribed to
    nTicks,     \* price ticks received from the spot feed so far
    exited,     \* main has returned and the tokio runtime has shut down
    ws_cfg,     \* WsConfig of the transport, and whether it has an outbound side
    ws,         \* locals of run_connection_loop / connect_and_stream
    inbox,      \* every WsMessage the transport has put on its inbound channel
    rx_open,    \* the inbound channel's receiver has not been dropped
    outq,       \* outbound channel: texts queued for the socket
    tx_open,    \* the outbound channel's sender has not been dropped
    waits,      \* the delays the transport has slept before retrying (history)
    pong_in,    \* seconds until the server's Pong to the last Ping arrives
    feed,       \* locals of run_subscription_loop, and the last branch it took
    token_ids,  \* the tokens the subscription was asked for
    subs,       \* the subscription messages the depth feed has sent (history)
    out,        \* every OrderBook the depth feed has put on its output channel
    out_open,   \* the output channel's receiver has not been dropped
    emitted,    \* what the last MomentumDetector::detect returned
    observed,   \* the observations detect has classified so far (history)
    lag_call,   \* the last call of LagDetector::detect_at and its result
    sp_books,   \* OrchestratorState.order_books : token_id -> OrderBook
    sp_positions, \* SpreadDetector.active_positions : condition_id -> count
    sp_check,   \* locals of the orchestrator task: check_spreads and the sends
    sp_out,     \* markets of the signals sent on the signal channel (history)
    sp_last,    \* the last market check_spreads decided on (history)
    pe,         \* callers of the PaperEngine: their calls in progress and results
    tracker,    \* PositionTracker: open_positions, closed_positions, total_exposure
    tr_last,    \* the last call on the PositionTracker and its result (history)
    monitor,    \* DrawdownMonitor: peak, current and daily-start equity, daily_pnl
    dm_calls,   \* the calls made on the DrawdownMonitor and the last result (history)
    store_rx,   \* orderbook_rx of each depth subscription: books not yet received
    store_tasks, \* locals of the update task spawned for each subscription
    store_lock, \* the RwLock around the OrderBookManager: its writer and readers
    store_hist, \* per token, the books delivered and the books applied (history)
    loops,      \* position of each long-running loop in its body
    upstream,   \* the channel each loop receives from: open or closed, items queued
    interrupted, \* Ctrl+C has been delivered to the process
    signal_rx_open, \* the receiver of the orchestrator's signal channel is alive
    cross       \* per market: what detect returned on the last tick, and a detector
                \* of its own fed the same ticks (history)

bookVars == <<books, lastMsg, nUpdates>>
recVars == <<now, rec_ch, rec_open, wr, pw, files, stats, write_failed, next_id, last_call>>

runVars == <<dry_run, detector, active_markets, fills, signals_generated,
             trades_executed, subscribed_tokens, nTicks>>

procVars == <<exited>>
wsVars == <<ws_cfg, ws, inbox, rx_open, outq, tx_open, waits, pong_in>>

\* The variables of the components that the book store, the recorder and
\* the trading loop never touch.
feedVars == <<feed, token_ids, subs, out, out_open>>
netVars == <<wsVars, feedVars>>
momVars == <<emitted, observed>>
\* Components studied on their own.
spreadVars == <<sp_books, sp_positions, sp_check, sp_out, sp_last>>
ledgerVars == <<tracker, tr_last>>
riskVars == <<monitor, dm_calls>>
storeVars == <<store_rx, store_tasks, store_lock, store_hist>>
loopVars == <<loops, upstream, interrupted, signal_rx_open>>
crossVars == <<cross>>
moreUnitVars == <<riskVars, storeVars, loopVars, crossVars>>
unitVars == <<lag_call, spreadVars, pe, ledgerVars, moreUnitVars>>
restVars == <<procVars, netVars, momVars, unitVars>>

vars == <<books, lastMsg, nUpdates, now, rec_ch, rec_open, wr, pw, files, stats,
          write_failed, next_id, last_call, dry_run, detector, active_markets, fills,
          signals_generated, trades_executed, subscribed_tokens, nTicks, restVars>>

(***************************************************************************)
(* Bounds of the book-store model.                                         *)
(***************************************************************************)
MaxUpdates == 2      \* depth-feed events handled in one behaviour
MaxPrice == 2        \* prices carried by deltas and shallow snapshots
MaxSize == 1         \* sizes 0..MaxSize (0 = removal)
MaxLevels == 2       \* levels in a shallow snapshot / changes in a delta
MaxTs == 1           \* venue timestamps 1..MaxTs

\* OrderBookManager::update replaces the book when a side has more levels.
SNAPSHOT_DEPTH == 5

TokenIds == {"tokA", "tokB"}
Prices == 1..MaxPrice
Sizes == 0..MaxSize
Timestamps == 1..MaxTs

\* Decimal and timestamp fields travel as strings.
MaxDecimal == SNAPSHOT_DEPTH + 1 + MaxPrice + MaxSize
Str(n) == ToString(n)
\* A string that Decimal::from_str rejects.
Invalid == "invalid"
\* An empty timestamp string.
EmptyTs == ""
\* None of an Option that holds a record (OrderBook, Signal, MomentumSignal).
None == [none |-> TRUE]

\* Option<Decimal>::None (decimals of the model are non-negative).
NoDecimal == -1

\* Option<DateTime<Utc>>::None.
NoTime == -1
\* Option<MomentumDirection>::None.
NoDirection == "none"

NoMsg == [event |-> [event_type |-> "none"], parsed |-> [none |-> TRUE]]

\* OrderBookManager::new, nothing received yet.
BookStart ==
    /\ books = <<>>
    /\ lastMsg = NoMsg
    /\ nUpdates = 0

\* The trading loop before its first tick: MomentumDetector::new,
\* PaperEngine::new, an empty active_markets map, counters at zero.
RunStart ==
    /\ detector = [prices |-> <<>>, last_direction |-> NoDirection, direction_start |-> NoTime]
    /\ active_markets = <<>>
    /\ subscribed_tokens = {}
    /\ fills = <<>>
    /\ signals_generated = 0
    /\ trades_executed = 0
    /\ nTicks = 0

\* The process and the components below before they have taken a step.
ProcStart == exited = FALSE

\* No Pong is on its way.
NoPong == -1

\* WsClient::connect / connect_bidirectional just after the task is spawned,
\* with the WsConfig left open.
WsStart ==
    /\ ws = [pc |-> "connecting", reconnect_attempts |-> 0,
             reconnect_delay |-> ws_cfg.initial_reconnect_delay,
             waiting_for_pong |-> FALSE, to_ping |-> 0, result |-> "running"]
    /\ inbox = <<>>
    /\ rx_open = TRUE
    /\ outq = <<>>
    /\ tx_open = TRUE
    /\ waits = <<>>
    /\ pong_in = NoPong

\* A transport that is not part of the component under study.
WsIdle ==
    /\ ws_cfg = [max_reconnect_attempts |-> 0, initial_reconnect_delay |-> 1,
                 max_reconnect_delay |-> 1, bidirectional |-> FALSE]
    /\ WsStart

\* run_subscription_loop before its first select!.
FeedStart ==
    /\ feed = [pc |-> "running", connected |-> FALSE, read |-> 0,
               last |-> [branch |-> "none"]]
    /\ subs = <<>>
    /\ out = <<>>
    /\ out_open = TRUE

\* A depth feed that is not part of the component under study.
FeedIdle == token_ids = <<>> /\ FeedStart

\* No call of MomentumDetector::detect has returned yet.
MomStart == emitted = None /\ observed = <<>>

\* No call of the components studied on their own has been made yet.
SpreadStart ==
    /\ sp_books = <<>>
    /\ sp_positions = <<>>
    /\ sp_check = [pc |-> "idle", todo |-> <<>>, books |-> None, signals |-> <<>>,
                   checks |-> 0]
    /\ sp_out = <<>>
    /\ sp_last = None

\* No call of the PaperEngine has been made and no OrderId generated.
PaperStart ==
    pe = [calls |-> <<>>, ids |-> 0, seen |-> <<>>, last |-> "none"]

\* PositionTracker::new; ids counts the position ids generated so far.
LedgerStart ==
    /\ tracker = [open_positions |-> <<>>, closed_positions |-> <<>>,
                  total_exposure |-> 0, ids |-> 0]
    /\ tr_last = [n |-> 0, op |-> "none"]

\* The equity the DrawdownMonitor is created with, in USD.
initial_equity == 1000

\* DrawdownMonitor::new(initial_equity), no call made yet.
MonitorStart ==
    /\ monitor = [peak_equity |-> initial_equity, current_equity |-> initial_equity,
                  daily_start_equity |-> initial_equity, daily_pnl |-> 0]
    /\ dm_calls = [ops |-> <<>>, halt |-> None]

\* The depth subscriptions of the trading loop, each with the token it was
\* made for: a token is subscribed once (run.rs:107, 122).
Subscriptions == {"s1", "s2"}
SubscribedToken == [s \in Subscriptions |-> IF s = "s1" THEN "tokA" ELSE "tokB"]

\* No update task holds the write guard.
NoTask == "none"

\* The update tasks blocked in orderbook_rx.recv() on empty channels, the
\* lock free.
StoreStart ==
    /\ store_rx = [s \in Subscriptions |-> <<>>]
    /\ store_tasks = [s \in Subscriptions |-> [pc |-> "recv", book |-> None]]
    /\ store_lock = [writer |-> NoTask, readers |-> 0]
    /\ store_hist = [delivered |-> [t \in {"tokA", "tokB"} |-> <<>>],
                     applied |-> [t \in {"tokA", "tokB"} |-> <<>>]]

\* The long-running loops: the capture loop (cli/capture.rs), the discovery
\* task refreshing the market directory (cli/run.rs), the spread
\* orchestrator's task, the depth feed's subscription loop and a recorder
\* writer.  The discovery task receives from no channel.
Loops == {"capture", "refresh", "orchestrator", "subscription", "writer"}
WithUpstream == Loops \ {"refresh"}

\* Every loop at the top of its body, every channel open and empty.
LoopStart ==
    /\ loops = [l \in Loops |-> "select"]
    /\ upstream = [l \in WithUpstream |-> [open |-> TRUE, queued |-> 0]]
    /\ interrupted = FALSE
    /\ signal_rx_open = TRUE

\* Before the first tick: nothing returned, every market's own detector as
\* MomentumDetector::new leaves it.
CrossStart ==
    cross = [shared |-> [m \in {"m1", "m2"} |-> None],
             alone |-> [m \in {"m1", "m2"} |-> None],
             own |-> [m \in {"m1", "m2"} |->
                        [prices |-> <<>>, last_direction |-> NoDirection,
                         direction_start |-> NoTime]]]

MoreUnitStart == MonitorStart /\ StoreStart /\ LoopStart /\ CrossStart

UnitStart == lag_call = None /\ SpreadStart /\ PaperStart /\ LedgerStart /\ MoreUnitStart

RestStart == ProcStart /\ WsIdle /\ FeedIdle /\ MomStart /\ UnitStart


(***************************************************************************)
(* Arithmetic helpers.                                                     *)
(***************************************************************************)
Abs(x) == IF x < 0 THEN -x ELSE x
Max(a, b) == IF a >= b THEN a ELSE b
Min(a, b) == IF a <= b THEN a ELSE b

(***************************************************************************)
(* Sequence helpers.                                                       *)
(***************************************************************************)
RECURSIVE SeqsUpTo(_, _)
SeqsUpTo(S, n) ==
    IF n = 0 THEN {<<>>}
    ELSE LET shorter == SeqsUpTo(S, n - 1)
         IN  shorter \cup {Append(s, x) : s \in {t \in shorter : Len(t) = n - 1}, x \in S}

Range(s) == {s[i] : i \in DOMAIN s}

\* Iterator::position: index of the first level with the given price, 0 if none.
Position(levels, price) ==
    IF \E i \in DOMAIN levels : levels[i].price = price
    THEN CHOOSE i \in DOMAIN levels :
            /\ levels[i].price = price
            /\ \A j \in 1..(i - 1) : levels[j].price # price
    ELSE 0

\* slice::sort_by is a stable sort.  dir = 1 sorts ascending by price
\* (a.price.cmp(&b.price)), dir = -1 descending (b.price.cmp(&a.price)).
RECURSIVE InsertStable(_, _, _)
InsertStable(sorted, x, dir) ==
    IF sorted = <<>> THEN <<x>>
    ELSE IF dir * x.price < dir * Head(sorted).price THEN <<x>> \o sorted
         ELSE <<Head(sorted)>> \o InsertStable(Tail(sorted), x, dir)

RECURSIVE SortStable(_, _)
SortStable(s, dir) ==
    IF s = <<>> THEN <<>>
    ELSE InsertStable(SortStable(SubSeq(s, 1, Len(s) - 1), dir), s[Len(s)], dir)

(***************************************************************************)
(* Depth feed: wire events and their conversion to OrderBook updates.      *)
(***************************************************************************)

\* Decimal::from_str(..).ok(): the value, or NoDecimal for an unparsable string.
DecimalFromStr(str) ==
    IF \E n \in 0..MaxDecimal : Str(n) = str
    THEN CHOOSE n \in 0..MaxDecimal : Str(n) = str
    ELSE NoDecimal

\* str.parse::<i64>().unwrap_or(0) of the millisecond timestamp.
TimestampFromStr(str) ==
    IF \E n \in 0..MaxDecimal : Str(n) = str
    THEN CHOOSE n \in 0..MaxDecimal : Str(n) = str
    ELSE 0

\* filter_map over the wire levels of one side of a book event.
RECURSIVE ParseLevels(_)
ParseLevels(wire) ==
    IF wire = <<>> THEN <<>>
    ELSE LET price == DecimalFromStr(Head(wire).price)
             size == DecimalFromStr(Head(wire).size)
         IN  IF price = NoDecimal \/ size = NoDecimal
             THEN ParseLevels(Tail(wire))
             ELSE <<[price |-> price, size |-> size]>> \o ParseLevels(Tail(wire))

book_event_to_orderbook(book, at) ==
    [token_id |-> book.asset_id,
     bids |-> ParseLevels(book.bids),
     asks |-> ParseLevels(book.asks),
     updated_at |-> IF book.timestamp # EmptyTs THEN TimestampFromStr(book.timestamp) ELSE at]

\* The per-asset (bids, asks) groups built by the loop over price_changes.
RECURSIVE ChangesOf(_, _, _)
ChangesOf(changes, asset, side) ==
    IF changes = <<>> THEN <<>>
    ELSE LET c == Head(changes)
             price == DecimalFromStr(c.price)
             size == DecimalFromStr(c.size)
         IN  IF /\ price # NoDecimal
                /\ size # NoDecimal
                /\ size # 0
                /\ c.asset_id = asset
                /\ c.side = side
             THEN <<[price |-> price, size |-> size]>> \o ChangesOf(Tail(changes), asset, side)
             ELSE ChangesOf(Tail(changes), asset, side)

\* Keys of changes_by_asset: an entry is created for every change that
\* parses and has a non-zero size, whatever its side.
GroupedAssets(changes) ==
    {changes[i].asset_id : i \in {j \in DOMAIN changes :
        /\ DecimalFromStr(changes[j].price) # NoDecimal
        /\ DecimalFromStr(changes[j].size) # NoDecimal
        /\ DecimalFromStr(changes[j].size) # 0}}

\* price_changes_to_orderbook returns the first entry of a HashMap iteration,
\* whose order is unspecified: the set of results the call can produce.
price_changes_to_orderbook(msg, at) ==
    IF msg.price_changes = <<>> THEN {None}
    ELSE IF GroupedAssets(msg.price_changes) = {} THEN {None}
    ELSE {LET bids == ChangesOf(msg.price_changes, asset, "BUY")
              asks == ChangesOf(msg.price_changes, asset, "SELL")
          IN  IF bids = <<>> /\ asks = <<>> THEN None
              ELSE [token_id |-> asset, bids |-> bids, asks |-> asks, updated_at |-> at]
          : asset \in GroupedAssets(msg.price_changes)}

\* Err(_) of serde_json::from_value: the event lacks a required field.
ParseError == [error |-> TRUE]

\* parse_single_event on an event object.
parse_single_event(event, at) ==
    CASE event.event_type = "book" ->
            IF "asset_id" \in DOMAIN event THEN {book_event_to_orderbook(event, at)}
            ELSE {ParseError}
      [] event.event_type = "price_change" -> price_changes_to_orderbook(event, at)
      [] OTHER -> {None}

(***************************************************************************)
(* Book store: OrderBookManager.                                           *)
(***************************************************************************)
\* The upsert loop of merge_update over one side.
RECURSIVE MergeLevels(_, _)
MergeLevels(existing, new_levels) ==
    IF new_levels = <<>> THEN existing
    ELSE LET new_level == Head(new_levels)
             pos == Position(existing, new_level.price)
         IN  MergeLevels(
                 IF pos # 0
                 THEN [existing EXCEPT ![pos].size = new_level.size]
                 ELSE Append(existing, new_level),
                 Tail(new_levels))

Insert(bs, book) ==
    [t \in DOMAIN bs \cup {book.token_id} |-> IF t = book.token_id THEN book ELSE bs[t]]

merge_update(bs, update) ==
    IF update.token_id \in DOMAIN bs
    THEN LET existing == bs[update.token_id]
         IN  [bs EXCEPT ![update.token_id] =
                 [token_id |-> existing.token_id,
                  bids |-> SortStable(MergeLevels(existing.bids, update.bids), -1),
                  asks |-> SortStable(MergeLevels(existing.asks, update.asks), 1),
                  updated_at |-> update.updated_at]]
    ELSE Insert(bs, update)

update(bs, book) ==
    IF Len(book.bids) > SNAPSHOT_DEPTH \/ Len(book.asks) > SNAPSHOT_DEPTH
    THEN Insert(bs, book)
    ELSE merge_update(bs, book)

best_bid(book) == IF book.bids = <<>> THEN NoDecimal ELSE Head(book.bids).price
best_ask(book) == IF book.asks = <<>> THEN NoDecimal ELSE Head(book.asks).price

(***************************************************************************)
(* Tick recorder: DataRecorder, its two writer tasks and ParquetWriter.    *)
(***************************************************************************)
\* Bounds of the recorder model.  The first four stand for mpsc::channel's
\* capacity (10_000 in DataRecorder::new) and for RecorderConfig's
\* buffer_size, flush_interval_secs and rotation_interval_secs.
ChannelCapacity == 1
BufferSize == 3
FlushInterval == 2
RotationInterval == 3
MaxRecords == 3      \* records offered to the recorder in one behaviour
MaxTime == 3         \* seconds of wall-clock time in one behaviour

\* The two streams, named by the file prefix of their writer.
Streams == {"price_ticks", "orderbook"}

WriterStart ==
    [pc |-> "select", buffer |-> <<>>, last_flush |-> 0, sleep_until |-> FlushInterval,
     pending |-> <<>>, path |-> NoTime, cause |-> "none", flush_now |-> NoTime]

RecStart ==
    /\ now = 0
    /\ rec_ch = [s \in Streams |-> <<>>]
    /\ rec_open = TRUE
    /\ wr = [s \in Streams |-> WriterStart]
    /\ pw = [s \in Streams |-> NoTime]
    /\ files = [s \in Streams |-> <<>>]
    /\ stats = [received |-> [s \in Streams |-> 0], written |-> [s \in Streams |-> 0],
                files_written |-> 0, channel_drops |-> 0]
    /\ write_failed = [s \in Streams |-> FALSE]
    /\ next_id = 1
    /\ last_call = [op |-> "none", result |-> "none"]

\* ParquetWriter::needs_rotation.
needs_rotation(current_file_start, t) ==
    IF current_file_start = NoTime THEN TRUE
    ELSE t - current_file_start >= RotationInterval

\* ParquetWriter::file_path: the name carries the prefix and the timestamp
\* formatted to the second.
file_path(prefix, timestamp) == timestamp

\* PriceTickRecord / OrderBookRecord built by the producer: the record's
\* identity and its timestamp field.
NewRecord == [id |-> next_id, timestamp |-> now]

TryOp(s) == IF s = "price_ticks" THEN "record_price" ELSE "record_orderbook"
AsyncOp(s) == IF s = "price_ticks" THEN "record_price_async" ELSE "record_orderbook_async"

\* TrySend without the drop counter: a full channel is reported but not counted.
TrySendUncounted(s) ==
    /\ rec_open
    /\ next_id <= MaxRecords
    /\ next_id' = next_id + 1
    /\ IF wr[s].pc = "done"
       THEN /\ last_call' = [op |-> TryOp(s), result |-> "ChannelClosed"]
            /\ UNCHANGED <<rec_ch, stats>>
       ELSE IF Len(rec_ch[s]) >= ChannelCapacity
       THEN /\ last_call' = [op |-> TryOp(s), result |-> "ChannelFull"]
            /\ UNCHANGED <<rec_ch, stats>>
       ELSE /\ rec_ch' = [rec_ch EXCEPT ![s] = Append(@, NewRecord)]
            /\ last_call' = [op |-> TryOp(s), result |-> "Ok"]
            /\ UNCHANGED stats
    /\ UNCHANGED <<bookVars, runVars, restVars, now, rec_open, wr, pw, files, write_failed>>

\* mpsc::Sender::try_send and the match on its result in record_price /
\* record_orderbook.
TrySend(s) ==
    /\ rec_open
    /\ next_id <= MaxRecords
    /\ next_id' = next_id + 1
    /\ IF wr[s].pc = "done"
       THEN /\ last_call' = [op |-> TryOp(s), result |-> "ChannelClosed"]
            /\ UNCHANGED <<rec_ch, stats>>
       ELSE IF Len(rec_ch[s]) >= ChannelCapacity
       THEN /\ stats' = [stats EXCEPT !.channel_drops = @ + 1]
            /\ last_call' = [op |-> TryOp(s), result |-> "ChannelFull"]
            /\ UNCHANGED rec_ch
       ELSE /\ rec_ch' = [rec_ch EXCEPT ![s] = Append(@, NewRecord)]
            /\ last_call' = [op |-> TryOp(s), result |-> "Ok"]
            /\ UNCHANGED stats
    /\ UNCHANGED <<bookVars, runVars, restVars, now, rec_open, wr, pw, files, write_failed>>

\* mpsc::Sender::send(..).await in record_price_async / record_orderbook_async:
\* the call completes once the channel has room.
SendAsync(s) ==
    /\ rec_open
    /\ next_id <= MaxRecords
    /\ Len(rec_ch[s]) < ChannelCapacity
    /\ next_id' = next_id + 1
    /\ rec_ch' = [rec_ch EXCEPT ![s] = Append(@, NewRecord)]
    /\ last_call' = [op |-> AsyncOp(s), result |-> "Ok"]
    /\ UNCHANGED <<bookVars, runVars, restVars, now, rec_open, wr, pw, files, stats, write_failed>>

record_price == TrySend("price_ticks")
record_orderbook == TrySend("orderbook")
record_price_async == SendAsync("price_ticks")
record_orderbook_async == SendAsync("orderbook")

\* flush_price_buffer / flush_orderbook_buffer up to the await of the
\* blocking write: rotation check, path, and the buffer handed to the write.
FlushStarted(w, current_file_start, cause, t) ==
    [w EXCEPT !.pc = "writing", !.buffer = <<>>, !.pending = w.buffer,
              !.path = file_path("", t), !.cause = cause, !.flush_now = t]

Rotated(current_file_start, t) ==
    IF needs_rotation(current_file_start, t) THEN t ELSE current_file_start

\* select!: rx.recv() yields a record.
WriterRecv(s) ==
    /\ wr[s].pc = "select"
    /\ rec_ch[s] # <<>>
    /\ rec_ch' = [rec_ch EXCEPT ![s] = Tail(@)]
    /\ stats' = [stats EXCEPT !.received[s] = @ + 1]
    /\ LET w == [wr[s] EXCEPT !.buffer = Append(@, Head(rec_ch[s]))]
       IN  IF Len(w.buffer) >= BufferSize
           THEN /\ wr' = [wr EXCEPT ![s] = FlushStarted(w, pw[s], "full", now)]
                /\ pw' = [pw EXCEPT ![s] = Rotated(@, now)]
           ELSE /\ wr' = [wr EXCEPT ![s] = [w EXCEPT !.sleep_until = now + FlushInterval]]
                /\ UNCHANGED pw
    /\ UNCHANGED <<bookVars, runVars, restVars, now, rec_open, files, write_failed, next_id, last_call>>

\* select!: rx.recv() yields None (every sender dropped, channel drained).
WriterClosed(s) ==
    /\ wr[s].pc = "select"
    /\ rec_ch[s] = <<>>
    /\ ~rec_open
    /\ IF wr[s].buffer # <<>>
       THEN /\ wr' = [wr EXCEPT ![s] = FlushStarted(@, pw[s], "close", now)]
            /\ pw' = [pw EXCEPT ![s] = Rotated(@, now)]
       ELSE /\ wr' = [wr EXCEPT ![s].pc = "done"]
            /\ UNCHANGED pw
    /\ UNCHANGED <<bookVars, runVars, restVars, now, rec_ch, rec_open, files, stats, write_failed, next_id, last_call>>

\* select!: the sleep(timeout) created by this loop iteration has elapsed.
WriterTimeout(s) ==
    /\ wr[s].pc = "select"
    /\ now >= wr[s].sleep_until
    /\ IF now - wr[s].last_flush >= FlushInterval /\ wr[s].buffer # <<>>
       THEN /\ wr' = [wr EXCEPT ![s] = FlushStarted(@, pw[s], "timer", now)]
            /\ pw' = [pw EXCEPT ![s] = Rotated(@, now)]
       ELSE /\ wr' = [wr EXCEPT ![s].sleep_until = now + FlushInterval]
            /\ UNCHANGED pw
    /\ UNCHANGED <<bookVars, runVars, restVars, now, rec_ch, rec_open, files, stats, write_failed, next_id, last_call>>

\* The writer's locals once the flush it awaited has returned.
AfterFlush(w) ==
    LET idle == [w EXCEPT !.pending = <<>>, !.path = NoTime, !.cause = "none",
                          !.flush_now = NoTime]
    IN  CASE w.cause = "full" ->
                [idle EXCEPT !.pc = "select", !.last_flush = now,
                             !.sleep_until = now + FlushInterval]
          [] w.cause = "timer" ->
                [idle EXCEPT !.pc = "select", !.last_flush = w.flush_now,
                             !.sleep_until = now + FlushInterval]
          [] OTHER -> [idle EXCEPT !.pc = "done"]

\* File::create(path) followed by the write of the batch.
Created(dir, path, records) ==
    [p \in DOMAIN dir \cup {path} |-> IF p = path THEN records ELSE dir[p]]

\* WriteOk counting one written record per flush instead of the batch size.
WriteOkCountsOne(s) ==
    /\ wr[s].pc = "writing"
    /\ files' = [files EXCEPT ![s] = Created(@, wr[s].path, wr[s].pending)]
    /\ stats' = [stats EXCEPT !.written[s] = @ + 1, !.files_written = @ + 1]
    /\ wr' = [wr EXCEPT ![s] = AfterFlush(@)]
    /\ UNCHANGED <<bookVars, runVars, restVars, now, rec_ch, rec_open, pw, write_failed, next_id, last_call>>

\* write_price_ticks_async / write_orderbook_snapshots_async returns Ok.
WriteOk(s) ==
    /\ wr[s].pc = "writing"
    /\ files' = [files EXCEPT ![s] = Created(@, wr[s].path, wr[s].pending)]
    /\ stats' = [stats EXCEPT !.written[s] = @ + Len(wr[s].pending),
                              !.files_written = @ + 1]
    /\ wr' = [wr EXCEPT ![s] = AfterFlush(@)]
    /\ UNCHANGED <<bookVars, runVars, restVars, now, rec_ch, rec_open, pw, write_failed, next_id, last_call>>

\* The write returns Err: the batch is lost; the file was either not
\* created or created and left without the batch.
WriteErr(s) ==
    /\ wr[s].pc = "writing"
    /\ \E created \in BOOLEAN :
          files' = IF created THEN [files EXCEPT ![s] = Created(@, wr[s].path, <<>>)]
                   ELSE files
    /\ write_failed' = [write_failed EXCEPT ![s] = TRUE]
    /\ wr' = [wr EXCEPT ![s] = AfterFlush(@)]
    /\ UNCHANGED <<bookVars, runVars, restVars, now, rec_ch, rec_open, pw, stats, next_id, last_call>>

\* The DataRecorder is dropped: both channels lose their senders.
DropRecorder ==
    /\ rec_open
    /\ rec_open' = FALSE
    /\ UNCHANGED <<bookVars, runVars, restVars, now, rec_ch, wr, pw, files, stats, write_failed, next_id, last_call>>

\* A second of wall-clock time passes.
Tick ==
    /\ now < MaxTime
    /\ now' = now + 1
    /\ UNCHANGED <<bookVars, runVars, restVars, rec_ch, rec_open, wr, pw, files, stats, write_failed, next_id, last_call>>

\* A writer task that is parked in select! with no branch ready.
WriterIdle(s) ==
    \/ wr[s].pc = "done"
    \/ /\ wr[s].pc = "select"
       /\ rec_ch[s] = <<>>
       /\ rec_open
       /\ now < wr[s].sleep_until

\* Time passes only while every writer task is parked: the writers are
\* scheduled as soon as one of their branches is ready and the blocking
\* write completes within the second.
PromptTick == (\A s \in Streams : WriterIdle(s)) /\ Tick

RecInit == RecStart /\ BookStart /\ RunStart /\ RestStart /\ dry_run = FALSE

RecNext ==
    \/ record_price
    \/ record_orderbook
    \/ record_price_async
    \/ record_orderbook_async
    \/ \E s \in Streams : WriterRecv(s)
    \/ \E s \in Streams : WriterClosed(s)
    \/ \E s \in Streams : WriterTimeout(s)
    \/ \E s \in Streams : WriteOk(s)
    \/ \E s \in Streams : WriteErr(s)
    \/ DropRecorder
    \/ Tick

RecPromptNext ==
    \/ record_price
    \/ record_orderbook
    \/ record_price_async
    \/ record_orderbook_async
    \/ \E s \in Streams : WriterRecv(s)
    \/ \E s \in Streams : WriterClosed(s)
    \/ \E s \in Streams : WriterTimeout(s)
    \/ \E s \in Streams : WriteOk(s)
    \/ \E s \in Streams : WriteErr(s)
    \/ DropRecorder
    \/ PromptTick

SpecRec == RecInit /\ [][RecNext]_vars
SpecRecPrompt == RecInit /\ [][RecPromptNext]_vars

(***************************************************************************)
(* Depth-feed inputs.                                                      *)
(***************************************************************************)
WireLevels ==
    [price : {Str(p) : p \in Prices}, size : {Str(z) : z \in Sizes}]
    \cup {[price |-> Invalid, size |-> Str(MaxSize)]}
\* The venue sends each price at most once per side of a message.
DistinctPrices(levels) ==
    \A i, j \in DOMAIN levels : i # j => levels[i].price # levels[j].price
ShallowSides == {s \in SeqsUpTo(WireLevels, MaxLevels) : DistinctPrices(s)}

\* Full-depth sides: SNAPSHOT_DEPTH + 1 distinct prices, best first or worst
\* first, every level with the same size.
DeepSide(dir, z) ==
    [i \in 1..(SNAPSHOT_DEPTH + 1) |->
        [price |-> Str(IF dir = 1 THEN i ELSE SNAPSHOT_DEPTH + 2 - i), size |-> Str(z)]]
DeepSides == {DeepSide(dir, z) : dir \in {1, -1}, z \in Sizes}

WireTimestamps == {EmptyTs} \cup {Str(t) : t \in Timestamps}

\* (bids, asks) of the events: shallow books of at most MaxLevels levels in
\* all, and full-depth books.
ShallowBooks == {p \in ShallowSides \X ShallowSides : Len(p[1]) + Len(p[2]) <= MaxLevels}
DeepBooks == {p \in (DeepSides \cup {<<>>}) \X (DeepSides \cup {<<>>}) : p # <<<<>>, <<>>>>}

BookEvents ==
    {[event_type |-> "book", asset_id |-> a, bids |-> p[1], asks |-> p[2], timestamp |-> ts] :
        a \in TokenIds, ts \in WireTimestamps, p \in ShallowBooks \cup DeepBooks}

PriceChanges ==
    [asset_id : TokenIds, price : {Str(p) : p \in Prices}, size : {Str(z) : z \in Sizes},
     side : {"BUY", "SELL"}]

DistinctChanges(changes) ==
    \A i, j \in DOMAIN changes :
        i # j => <<changes[i].asset_id, changes[i].side, changes[i].price>>
                    # <<changes[j].asset_id, changes[j].side, changes[j].price>>

PriceChangeEvents ==
    {[event_type |-> "price_change", price_changes |-> c] :
        c \in {x \in SeqsUpTo(PriceChanges, MaxLevels) : DistinctChanges(x)}}

(***************************************************************************)
(* Depth feed -> book store.  The subscription forwards each OrderBook it  *)
(* parses over a FIFO channel to the one task that applies it, so parsing  *)
(* an event and applying its update are one step here.                     *)
(***************************************************************************)
BookInit == BookStart /\ RecStart /\ RunStart /\ RestStart /\ dry_run = FALSE

\* Utc::now() of the feed: events are handled at successive instants.
FeedNow == nUpdates

\* The store after the update task has applied what the feed parsed.
Applied(parsed) == IF parsed = None THEN books ELSE update(books, parsed)

\* A "book" event arrives: parse_single_event -> book_event_to_orderbook,
\* then OrderBookManager::update.
SnapshotEvent ==
    /\ nUpdates < MaxUpdates
    /\ \E event \in BookEvents :
          \E parsed \in parse_single_event(event, FeedNow) :
              /\ books' = Applied(parsed)
              /\ lastMsg' = [event |-> event, parsed |-> parsed]
    /\ nUpdates' = nUpdates + 1
    /\ UNCHANGED <<recVars, runVars, restVars>>

\* A "price_change" event arrives: parse_single_event ->
\* price_changes_to_orderbook, then OrderBookManager::update.
DeltaEvent ==
    /\ nUpdates < MaxUpdates
    /\ \E event \in PriceChangeEvents :
          \E parsed \in parse_single_event(event, FeedNow) :
              /\ books' = Applied(parsed)
              /\ lastMsg' = [event |-> event, parsed |-> parsed]
    /\ nUpdates' = nUpdates + 1
    /\ UNCHANGED <<recVars, runVars, restVars>>

BookNext == SnapshotEvent \/ DeltaEvent

SpecBook == BookInit /\ [][BookNext]_vars

(***************************************************************************)
(* Book-store properties.                                                  *)
(***************************************************************************)
StoredSide(token, side) ==
    IF token \in DOMAIN books
    THEN (IF side = "BUY" THEN books[token].bids ELSE books[token].asks)
    ELSE <<>>

\* The last change of a delta that addresses a given level of a given token.
IsLastChangeFor(changes, i) ==
    \A j \in DOMAIN changes :
        (/\ j > i
         /\ changes[j].asset_id = changes[i].asset_id
         /\ changes[j].side = changes[i].side
         /\ DecimalFromStr(changes[j].price) = DecimalFromStr(changes[i].price)) => FALSE

\* C3: once a delta carrying size = 0 for a price level of a token has been
\* handled, the stored book of that token has no level at that price on that
\* side.
C3_ZeroSizeDeltaRemovesLevel ==
    lastMsg.event.event_type = "price_change" =>
        \A i \in DOMAIN lastMsg.event.price_changes :
            LET c == lastMsg.event.price_changes[i]
            IN  (DecimalFromStr(c.size) = 0 /\ IsLastChangeFor(lastMsg.event.price_changes, i))
                    => Position(StoredSide(c.asset_id, c.side), DecimalFromStr(c.price)) = 0

\* C4: every stored book has its bids in strictly descending and its asks in
\* strictly ascending price order.
C4_SidesStrictlyOrdered ==
    \A t \in DOMAIN books :
        /\ \A i \in 1..(Len(books[t].bids) - 1) : books[t].bids[i].price > books[t].bids[i + 1].price
        /\ \A i \in 1..(Len(books[t].asks) - 1) : books[t].asks[i].price < books[t].asks[i + 1].price

\* C5: after an update produced from a snapshot (book) event is applied, the
\* stored book of that token consists of exactly the snapshot's levels.
C5_SnapshotReplacesBook ==
    lastMsg.event.event_type = "book" =>
        /\ lastMsg.parsed.token_id \in DOMAIN books
        /\ Range(books[lastMsg.parsed.token_id].bids) = Range(lastMsg.parsed.bids)
        /\ Range(books[lastMsg.parsed.token_id].asks) = Range(lastMsg.parsed.asks)

\* C6: applying a snapshot a second time leaves the store exactly as the
\* first application left it.
C6_SnapshotIdempotent ==
    lastMsg.event.event_type = "book" => update(books, lastMsg.parsed) = books

\* The tokens for which an event carries something the feed can parse into
\* an OrderBook: the token of a snapshot, and every token of a delta that
\* has a change with a parsable price, a non-zero size and a side.
ParsableTokens(event) ==
    CASE event.event_type = "book" -> {event.asset_id}
      [] event.event_type = "price_change" ->
            {a \in GroupedAssets(event.price_changes) :
                \/ ChangesOf(event.price_changes, a, "BUY") # <<>>
                \/ ChangesOf(event.price_changes, a, "SELL") # <<>>}
      [] OTHER -> {}

\* C40: an OrderBook update is emitted for every token that the handled
\* message has parsable book data for; a delta whose changes touch several
\* tokens yields an update for each of them.
C40_EveryBookEventEmitted ==
    ParsableTokens(lastMsg.event)
        = (IF lastMsg.parsed = None THEN {} ELSE {lastMsg.parsed.token_id})

(***************************************************************************)
(* Recorder properties.                                                    *)
(***************************************************************************)
\* C7 as stated: while no write of the stream has failed,
\* received = written + in_buffer + channel_drops.
C7_ReceivedWrittenBufferedDropped ==
    \A s \in Streams :
        ~write_failed[s] =>
            stats.received[s] = stats.written[s] + Len(wr[s].buffer) + stats.channel_drops

\* C7 amended: while no write of the stream has failed, received = written
\* + in_buffer + in_flight, in_flight being the records handed to a flush
\* whose write has not returned yet; dropped records are never received.
C7_ReceivedWrittenBufferedInFlight ==
    \A s \in Streams :
        ~write_failed[s] =>
            stats.received[s] = stats.written[s] + Len(wr[s].buffer) + Len(wr[s].pending)

C7_Witness ==
    \E s \in Streams :
        /\ ~write_failed[s]
        /\ stats.channel_drops > 0
        /\ stats.written[s] > 0
        /\ wr[s].buffer # <<>>

\* C8: record_price and record_orderbook return at once: on a full channel
\* with ChannelFull, channel_drops one higher and the channel untouched; with
\* room, with Ok, the record enqueued and channel_drops unchanged.
C8_TrySendFullOrEnqueued ==
    /\ [](\A s \in Streams : (rec_open /\ next_id <= MaxRecords) => ENABLED TrySend(s))
    /\ [][\A s \in Streams :
             (next_id' # next_id /\ last_call'.op = TryOp(s)) =>
                 IF Len(rec_ch[s]) >= ChannelCapacity
                 THEN /\ last_call'.result = "ChannelFull"
                      /\ stats'.channel_drops = stats.channel_drops + 1
                      /\ rec_ch' = rec_ch
                 ELSE /\ last_call'.result = "Ok"
                      /\ rec_ch' = [rec_ch EXCEPT ![s] = Append(@, [id |-> next_id, timestamp |-> now])]
                      /\ stats'.channel_drops = stats.channel_drops]_vars

C8_Witness ==
    /\ last_call.result = "ChannelFull"
    /\ last_call.op \in {"record_price", "record_orderbook"}
    /\ stats.channel_drops > 0
    /\ \E s \in Streams : Len(rec_ch[s]) = ChannelCapacity

\* C9: a parked writer never holds buffer_size records, and never holds a
\* record that has been buffered for flush_interval_secs while
\* flush_interval_secs have also elapsed since the last flush.
C9_FlushWhenFullOrDue ==
    \A s \in Streams :
        (wr[s].pc = "select" /\ WriterIdle(s)) =>
            /\ Len(wr[s].buffer) < BufferSize
            /\ wr[s].buffer # <<>> =>
                  ~(/\ now - wr[s].last_flush >= FlushInterval
                    /\ now - wr[s].buffer[1].timestamp >= FlushInterval)

\* C10: a file that a flush adds to the output directory starts at the
\* instant of a rotation, i.e. the flush found needs_rotation true.
C10_NewFileOnlyOnRotation ==
    [][\A s \in Streams :
          \A p \in DOMAIN files'[s] \ DOMAIN files[s] : pw[s] = p]_vars

\* The records held by the files of a stream's output directory.
RecordsOnDisk(s) ==
    UNION {{files[s][p][i].id : i \in 1..Len(files[s][p])} : p \in DOMAIN files[s]}

\* C39: every record counted in the written counter of a stream is held by
\* some file of that stream: no flush replaces the content of a file that an
\* earlier flush produced, two flushes within one second included.
C39_WrittenRecordsOnDisk ==
    \A s \in Streams : stats.written[s] = Cardinality(RecordsOnDisk(s))

(***************************************************************************)
(* Capture command: CaptureArgs::execute feeding the recorder, and the     *)
(* end of the process.  The loop records spot ticks with record_price      *)
(* until the interrupt; it then reads the statistics and returns, which    *)
(* drops the DataRecorder; main returns and the runtime is shut down.      *)
(***************************************************************************)
\* The signal::ctrl_c() branch of the capture loop: break, summary, return.
\* The recorder goes out of scope; nothing waits for the writer tasks.
Interrupt == DropRecorder

\* main returns: the runtime built by #[tokio::main] is dropped.  A writer
\* task that has not finished is cancelled where it awaits; a blocking
\* write it was awaiting has either been started, and runs to completion,
\* or has not, and is discarded.
RuntimeShutdown ==
    /\ ~rec_open
    /\ ~exited
    /\ exited' = TRUE
    /\ \E ran \in [Streams -> BOOLEAN] :
          files' = [s \in Streams |->
                      IF wr[s].pc = "writing" /\ ran[s]
                      THEN Created(files[s], wr[s].path, wr[s].pending)
                      ELSE files[s]]
    /\ wr' = [s \in Streams |->
                 IF wr[s].pc = "done" THEN wr[s] ELSE [wr[s] EXCEPT !.pc = "cancelled"]]
    /\ UNCHANGED <<bookVars, runVars, netVars, momVars, unitVars, now, rec_ch, rec_open, pw, stats,
                   write_failed, next_id, last_call>>

CaptureInit == RecInit

CaptureNext ==
    \/ record_price
    \/ \E s \in Streams : WriterRecv(s)
    \/ \E s \in Streams : WriterClosed(s)
    \/ \E s \in Streams : WriterTimeout(s)
    \/ \E s \in Streams : WriteOk(s)
    \/ \E s \in Streams : WriteErr(s)
    \/ Interrupt
    \/ RuntimeShutdown
    \/ Tick

SpecCapture == CaptureInit /\ [][CaptureNext]_vars

\* C11: when the shutdown that follows an interrupt has completed, no
\* accepted record is left in a channel or in a writer's buffer, and a batch
\* handed to a write is in its file.
C11_ShutdownDrainsBuffers ==
    exited =>
        \A s \in Streams :
            /\ rec_ch[s] = <<>>
            /\ wr[s].buffer = <<>>
            /\ wr[s].pending # <<>> =>
                  /\ wr[s].path \in DOMAIN files[s]
                  /\ files[s][wr[s].path] = wr[s].pending

(***************************************************************************)
(* Reconnecting transport: WsClient.  run_connection_loop and              *)
(* run_bidirectional_loop differ only in the outbound receiver they hand   *)
(* to connect_and_stream; ws_cfg.bidirectional tells them apart.  Delays   *)
(* are in seconds.  The ping timer is tokio::time::interval: its first     *)
(* tick is due at once, the following ones every ping_interval.            *)
(***************************************************************************)
MaxReconnects == 2     \* largest max_reconnect_attempts drawn (0 = infinite)
MaxInitialDelay == 2   \* largest initial_reconnect_delay drawn
MaxDelay == 3          \* largest max_reconnect_delay drawn
MaxFailures == 3       \* connection errors in one behaviour
MaxFrames == 1         \* data frames received in one behaviour
OutCapacity == 1       \* capacity of the outbound channel (256 in the code)
PingInterval == 3      \* WsConfig.ping_interval (30 s by default)
PongTimeout == 1       \* WsConfig.pong_timeout (10 s by default)

\* The configurations drawn: as in every WsConfig the code builds, the
\* initial delay does not exceed the maximum delay.
WsConfigs ==
    { c \in [max_reconnect_attempts : 0..MaxReconnects,
             initial_reconnect_delay : 1..MaxInitialDelay,
             max_reconnect_delay : 1..MaxDelay,
             bidirectional : BOOLEAN] :
        c.initial_reconnect_delay <= c.max_reconnect_delay }

Connected == [type |-> "Connected"]
Disconnected == [type |-> "Disconnected"]
Reconnecting(n) == [type |-> "Reconnecting", attempt |-> n]
Text(x) == [type |-> "Text", payload |-> x]
Binary(x) == [type |-> "Binary", payload |-> x]

\* tx.send(msg).await on the inbound channel: delivered unless the receiver
\* has been dropped.
Delivered(msg) == IF rx_open THEN Append(inbox, msg) ELSE inbox

\* The number of data frames delivered so far.
NFrames == Cardinality({i \in DOMAIN inbox : inbox[i].type \in {"Text", "Binary"}})

\* connect_and_stream returned Ok(()): Disconnected is sent and the loop ends.
ClosedCleanly ==
    /\ ws' = [ws EXCEPT !.pc = "done", !.result = "closed"]
    /\ inbox' = Delivered(Disconnected)
    /\ UNCHANGED waits

\* OnError with the wait left at the initial delay for every retry.
OnErrorNoBackoff ==
    LET attempts == ws.reconnect_attempts + 1
    IN  IF ws_cfg.max_reconnect_attempts > 0 /\ attempts >= ws_cfg.max_reconnect_attempts
        THEN /\ ws' = [ws EXCEPT !.pc = "done", !.result = "max_reconnects",
                                 !.reconnect_attempts = attempts]
             /\ inbox' = Delivered(Disconnected)
             /\ UNCHANGED waits
        ELSE IF ~rx_open
        THEN /\ ws' = [ws EXCEPT !.pc = "done", !.result = "receiver_dropped",
                                 !.reconnect_attempts = attempts]
             /\ UNCHANGED <<inbox, waits>>
        ELSE /\ ws' = [ws EXCEPT !.pc = "sleeping", !.reconnect_attempts = attempts]
             /\ inbox' = Delivered(Reconnecting(attempts))
             /\ waits' = Append(waits, ws_cfg.initial_reconnect_delay)

\* OnError without the check of max_reconnect_attempts.
OnErrorNoLimit ==
    LET attempts == ws.reconnect_attempts + 1
    IN  IF ~rx_open
        THEN /\ ws' = [ws EXCEPT !.pc = "done", !.result = "receiver_dropped",
                                 !.reconnect_attempts = attempts]
             /\ UNCHANGED <<inbox, waits>>
        ELSE /\ ws' = [ws EXCEPT !.pc = "sleeping", !.reconnect_attempts = attempts]
             /\ inbox' = Delivered(Reconnecting(attempts))
             /\ waits' = Append(waits, ws.reconnect_delay)

\* OnError without the Reconnecting notification.
OnErrorUnannounced ==
    LET attempts == ws.reconnect_attempts + 1
    IN  IF ws_cfg.max_reconnect_attempts > 0 /\ attempts >= ws_cfg.max_reconnect_attempts
        THEN /\ ws' = [ws EXCEPT !.pc = "done", !.result = "max_reconnects",
                                 !.reconnect_attempts = attempts]
             /\ inbox' = Delivered(Disconnected)
             /\ UNCHANGED waits
        ELSE IF ~rx_open
        THEN /\ ws' = [ws EXCEPT !.pc = "done", !.result = "receiver_dropped",
                                 !.reconnect_attempts = attempts]
             /\ UNCHANGED <<inbox, waits>>
        ELSE /\ ws' = [ws EXCEPT !.pc = "sleeping", !.reconnect_attempts = attempts]
             /\ waits' = Append(waits, ws.reconnect_delay)
             /\ UNCHANGED inbox

\* connect_and_stream returned Err: the Err arm of the connection loop up to
\* the sleep.
OnError ==
    LET attempts == ws.reconnect_attempts + 1
    IN  IF ws_cfg.max_reconnect_attempts > 0 /\ attempts >= ws_cfg.max_reconnect_attempts
        THEN /\ ws' = [ws EXCEPT !.pc = "done", !.result = "max_reconnects",
                                 !.reconnect_attempts = attempts]
             /\ inbox' = Delivered(Disconnected)
             /\ UNCHANGED waits
        ELSE IF ~rx_open
        THEN /\ ws' = [ws EXCEPT !.pc = "done", !.result = "receiver_dropped",
                                 !.reconnect_attempts = attempts]
             /\ UNCHANGED <<inbox, waits>>
        ELSE /\ ws' = [ws EXCEPT !.pc = "sleeping", !.reconnect_attempts = attempts]
             /\ inbox' = Delivered(Reconnecting(attempts))
             /\ waits' = Append(waits, ws.reconnect_delay)

\* The environment may still break the connection in this behaviour.
MayFail == ws.reconnect_attempts < MaxFailures

WsOthers == <<bookVars, recVars, runVars, procVars, momVars, unitVars, feedVars, ws_cfg>>

\* connect_async returns Err.
ConnectFailed ==
    /\ ws.pc = "connecting"
    /\ MayFail
    /\ OnError
    /\ UNCHANGED <<WsOthers, rx_open, outq, tx_open, pong_in>>

\* connect_async returns Ok: Connected is sent, the ping timer is created.
ConnectOk ==
    /\ ws.pc = "connecting"
    /\ IF rx_open
       THEN /\ ws' = [ws EXCEPT !.pc = "connected", !.waiting_for_pong = FALSE,
                                !.to_ping = 0]
            /\ inbox' = Append(inbox, Connected)
            /\ UNCHANGED waits
       ELSE ClosedCleanly
    /\ UNCHANGED <<WsOthers, rx_open, outq, tx_open, pong_in>>

\* read.next() yields a Text or Binary frame.
RecvData(frames, limit) ==
    /\ ws.pc = "connected"
    /\ NFrames < limit
    /\ \E m \in frames :
          IF rx_open
          THEN /\ inbox' = Append(inbox, m)
               /\ UNCHANGED <<ws, waits>>
          ELSE ClosedCleanly
    /\ UNCHANGED <<WsOthers, rx_open, outq, tx_open, pong_in>>

\* read.next() yields a Ping frame: the Pong is written, or the write fails.
RecvPing ==
    /\ ws.pc = "connected"
    /\ \/ UNCHANGED <<ws, inbox, waits>>
       \/ MayFail /\ OnError
    /\ UNCHANGED <<WsOthers, rx_open, outq, tx_open, pong_in>>

\* read.next() yields a Pong frame.
RecvPong ==
    /\ ws.pc = "connected"
    /\ pong_in = 0
    /\ pong_in' = NoPong
    /\ ws' = [ws EXCEPT !.waiting_for_pong = FALSE]
    /\ UNCHANGED <<WsOthers, inbox, waits, rx_open, outq, tx_open>>

\* read.next() yields a Close frame.
RecvClose ==
    /\ ws.pc = "connected"
    /\ ClosedCleanly
    /\ UNCHANGED <<WsOthers, rx_open, outq, tx_open, pong_in>>

\* read.next() yields Some(Err(_)) or None.
RecvError ==
    /\ ws.pc = "connected"
    /\ MayFail
    /\ OnError
    /\ UNCHANGED <<WsOthers, rx_open, outq, tx_open, pong_in>>

\* The outbound branch yields a text: it is written, or the write fails.
Outbound ==
    /\ ws.pc = "connected"
    /\ ws_cfg.bidirectional
    /\ outq # <<>>
    /\ outq' = Tail(outq)
    /\ \/ UNCHANGED <<ws, inbox, waits>>
       \/ MayFail /\ OnError
    /\ UNCHANGED <<WsOthers, rx_open, tx_open, pong_in>>

\* The outbound branch yields None: the sender was dropped.
OutboundClosed ==
    /\ ws.pc = "connected"
    /\ ws_cfg.bidirectional
    /\ outq = <<>>
    /\ ~tx_open
    /\ ClosedCleanly
    /\ UNCHANGED <<WsOthers, rx_open, outq, tx_open, pong_in>>

\* The server's answers to a Ping: a Pong within the ping interval, or,
\* while the connection may still break, none before the next ping is due.
PongDelays == (0..(PingInterval - 1)) \cup (IF MayFail THEN {NoPong} ELSE {})

\* ping_interval.tick(): an unanswered ping ends the connection, otherwise
\* a Ping is written (or the write fails).
PingTick ==
    /\ ws.pc = "connected"
    /\ ws.to_ping = 0
    /\ IF ws.waiting_for_pong
       THEN OnError /\ pong_in' = NoPong
       ELSE \/ /\ ws' = [ws EXCEPT !.waiting_for_pong = TRUE, !.to_ping = PingInterval]
               /\ pong_in' \in PongDelays
               /\ UNCHANGED <<inbox, waits>>
            \/ MayFail /\ OnError /\ pong_in' = NoPong
    /\ UNCHANGED <<WsOthers, rx_open, outq, tx_open>>

\* sleep(reconnect_delay) has elapsed; the delay is doubled up to the maximum.
BackoffElapsed ==
    /\ ws.pc = "sleeping"
    /\ ws' = [ws EXCEPT !.pc = "connecting",
                        !.reconnect_delay = Min(ws.reconnect_delay * 2,
                                                ws_cfg.max_reconnect_delay)]
    /\ UNCHANGED <<WsOthers, inbox, waits, rx_open, outq, tx_open, pong_in>>

\* A second passes on an open connection; the ping timer fires when due.
WsTick ==
    /\ ws.pc = "connected"
    /\ ws.to_ping > 0
    /\ pong_in # 0
    /\ ws' = [ws EXCEPT !.to_ping = @ - 1]
    /\ pong_in' = IF pong_in > 0 THEN pong_in - 1 ELSE pong_in
    /\ UNCHANGED <<WsOthers, inbox, waits, rx_open, outq, tx_open>>

\* The consumer drops the inbound receiver.
DropReceiver ==
    /\ rx_open
    /\ rx_open' = FALSE
    /\ UNCHANGED <<WsOthers, ws, inbox, waits, outq, tx_open, pong_in>>

\* The consumer queues a text on the outbound channel.
SendText ==
    /\ ws_cfg.bidirectional
    /\ tx_open
    /\ ws.pc # "done"
    /\ Len(outq) < OutCapacity
    /\ outq' = Append(outq, "text")
    /\ UNCHANGED <<WsOthers, ws, inbox, waits, rx_open, tx_open, pong_in>>

\* The consumer drops the outbound sender.
DropSender ==
    /\ ws_cfg.bidirectional
    /\ tx_open
    /\ tx_open' = FALSE
    /\ UNCHANGED <<WsOthers, ws, inbox, waits, rx_open, outq, pong_in>>

WsFrames == {Text("frame"), Binary("frame")}
RecvFrame == RecvData(WsFrames, MaxFrames)

WsInit ==
    /\ BookStart /\ RecStart /\ RunStart /\ ProcStart /\ FeedIdle /\ MomStart /\ UnitStart
    /\ dry_run = FALSE
    /\ ws_cfg \in WsConfigs
    /\ WsStart

WsNext ==
    \/ ConnectFailed
    \/ ConnectOk
    \/ RecvFrame
    \/ RecvPing
    \/ RecvPong
    \/ RecvClose
    \/ RecvError
    \/ Outbound
    \/ OutboundClosed
    \/ PingTick
    \/ BackoffElapsed
    \/ WsTick
    \/ DropReceiver
    \/ SendText
    \/ DropSender

SpecWs == WsInit /\ [][WsNext]_vars

\* The transport task is scheduled whenever one of its steps is ready: a
\* connection attempt completes, a sleep elapses, the ping timer fires, time
\* passes, a Pong on its way arrives, and a ready outbound branch is taken.
\* The frames the server sends of its own accord, and the failures of the
\* connection, are not subject to any fairness.
WsFairness ==
    /\ WF_vars(ConnectOk \/ ConnectFailed)
    /\ WF_vars(BackoffElapsed)
    /\ WF_vars(PingTick)
    /\ WF_vars(WsTick)
    /\ WF_vars(RecvPong)
    /\ WF_vars(Outbound)
    /\ WF_vars(OutboundClosed)

SpecWsFair == WsInit /\ [][WsNext]_vars /\ WsFairness

C13_GivesUpAtMaxReconnects ==
    /\ [](LET N == ws_cfg.max_reconnect_attempts
          IN  /\ N # 0 => ws.reconnect_attempts <= N
              /\ (N # 0 /\ ws.reconnect_attempts = N) =>
                    /\ ws.pc = "done"
                    /\ ws.result = "max_reconnects"
                    /\ rx_open => (inbox # <<>> /\ inbox[Len(inbox)] = Disconnected)
              /\ N = 0 => ws.result # "max_reconnects")
    /\ [][ws.pc = "done" => (ws' = ws /\ inbox' = inbox /\ waits' = waits)]_vars

C13_Witness ==
    /\ ws_cfg.max_reconnect_attempts = 2
    /\ ws.result = "max_reconnects"
    /\ Len(waits) = 1
    /\ inbox[Len(inbox)] = Disconnected

C15_PongTimeoutTearsDown ==
    (ws.pc = "connected" /\ ws.waiting_for_pong) =>
        PingInterval - ws.to_ping <= PongTimeout

\* C16: once the inbound receiver has been dropped, the transport task
\* eventually terminates.
C16_ReceiverDroppedTerminates == (~rx_open) ~> (ws.pc = "done")

\* C37: a connection loss that follows an established connection is
\* announced as attempt 1 and waits the initial delay: the Reconnecting
\* messages and the waits go together one to one, and a Reconnecting whose
\* nearest earlier Connected has no Reconnecting after it is the k-th wait.
C37_ConnectionResetsBackoff ==
    \A i \in DOMAIN inbox :
        (/\ inbox[i].type = "Reconnecting"
         /\ \E j \in 1..(i - 1) :
                /\ inbox[j].type = "Connected"
                /\ \A l \in (j + 1)..(i - 1) : inbox[l].type # "Reconnecting")
        => LET k == Cardinality({l \in 1..i : inbox[l].type = "Reconnecting"})
           IN  /\ inbox[i].attempt = 1
               /\ k <= Len(waits) => waits[k] = ws_cfg.initial_reconnect_delay

\* C38: a Close frame received while the consumer still holds the receiver
\* is handled as a connection loss: the transport goes on to reconnect and
\* sends no Disconnected.
C38_CloseFrameReconnects ==
    [][(RecvClose /\ rx_open) =>
          /\ ws'.pc # "done"
          /\ inbox' # Append(inbox, Disconnected)]_vars

(***************************************************************************)
(* Depth-feed subscription: run_subscription_loop over a bidirectional     *)
(* transport.  The loop reads the transport's inbound channel in order     *)
(* (feed.read counts the messages taken from inbox); when it breaks, the   *)
(* function returns and drops the inbound receiver, the outbound sender    *)
(* and the sender of its output channel.                                   *)
(***************************************************************************)
MaxMarketFrames == 2   \* data frames the venue sends in one behaviour

\* The WsConfig built from PolymarketConfig::default: no limit on the
\* reconnects, delays from 1 s up to the maximum.
PolymarketWsConfig ==
    [max_reconnect_attempts |-> 0, initial_reconnect_delay |-> 1,
     max_reconnect_delay |-> MaxDelay, bidirectional |-> TRUE]

\* The token list handed to subscribe (an empty list starts no loop).
TokenLists == {<<"tokA", "tokB">>}

\* Events of the venue: a snapshot, and a snapshot without its asset_id,
\* which BookEvent's deserialisation rejects.
GoodBook ==
    [event_type |-> "book", asset_id |-> "tokA",
     bids |-> <<[price |-> Str(1), size |-> Str(1)]>>, asks |-> <<>>,
     timestamp |-> EmptyTs]
MalformedBook ==
    [event_type |-> "book", bids |-> <<>>, asks |-> <<>>, timestamp |-> EmptyTs]

\* The texts of the frames: one event object, or an array of events.
MarketTexts ==
    {[json |-> "object", event |-> e] : e \in {GoodBook, MalformedBook}}
    \cup {[json |-> "array", events |-> <<MalformedBook, GoodBook>>]}

MarketFrames == {Text(x) : x \in MarketTexts}

\* The loop of parse_market_message over an array: the first event that
\* yields an order book decides; events that fail or yield none are skipped.
RECURSIVE FirstBook(_, _)
FirstBook(events, at) ==
    IF events = <<>> THEN {None}
    ELSE UNION {IF r \in {None, ParseError} THEN FirstBook(Tail(events), at) ELSE {r} :
                   r \in parse_single_event(Head(events), at)}

\* parse_market_message: the results the call can produce.
parse_market_message(text, at) ==
    CASE text.json = "array" -> FirstBook(text.events, at)
      [] text.json = "object" -> parse_single_event(text.event, at)
      [] OTHER -> {None}

\* The loop has left its select! by break.
Stopped(f) == [f EXCEPT !.pc = "done"]

\* The Connected arm subscribing on the first connection only.
OnConnectedFirstOnly(f) ==
    LET g == [f EXCEPT !.connected = TRUE, !.last = [branch |-> "Connected"]]
    IN  IF ws.pc = "done"
        THEN /\ feed' = Stopped(g)
             /\ UNCHANGED <<subs, outq, out>>
        ELSE IF subs # <<>>
        THEN /\ feed' = g
             /\ UNCHANGED <<subs, outq, out>>
        ELSE /\ Len(outq) < OutCapacity
             /\ feed' = g
             /\ outq' = Append(outq, token_ids)
             /\ subs' = Append(subs, token_ids)
             /\ UNCHANGED out

\* The Connected arm: the subscription message is queued on the outbound
\* channel; the send fails once the transport task has ended.
OnConnected(f) ==
    LET g == [f EXCEPT !.connected = TRUE, !.last = [branch |-> "Connected"]]
    IN  IF ws.pc = "done"
        THEN /\ feed' = Stopped(g)
             /\ UNCHANGED <<subs, outq, out>>
        ELSE /\ Len(outq) < OutCapacity
             /\ feed' = g
             /\ outq' = Append(outq, token_ids)
             /\ subs' = Append(subs, token_ids)
             /\ UNCHANGED out

\* The Text arm leaving the loop on a parse error.
OnTextStopsOnError(f, text) ==
    /\ IF ~feed.connected
       THEN /\ feed' = [f EXCEPT !.last = [branch |-> "Text", text |-> text,
                                           parsed |-> [skipped |-> TRUE]]]
            /\ UNCHANGED out
       ELSE \E parsed \in parse_market_message(text, FeedNow) :
               LET g == [f EXCEPT !.last = [branch |-> "Text", text |-> text,
                                            parsed |-> parsed]]
               IN  IF parsed = ParseError
                   THEN feed' = Stopped(g) /\ UNCHANGED out
                   ELSE IF parsed = None
                   THEN feed' = g /\ UNCHANGED out
                   ELSE IF out_open
                   THEN feed' = g /\ out' = Append(out, parsed)
                   ELSE feed' = Stopped(g) /\ UNCHANGED out
    /\ UNCHANGED <<subs, outq>>

\* The Text arm: the frame is parsed; an order book is sent on the output
\* channel, a parse error is logged, anything else is ignored.
OnText(f, text) ==
    /\ IF ~feed.connected
       THEN /\ feed' = [f EXCEPT !.last = [branch |-> "Text", text |-> text,
                                           parsed |-> [skipped |-> TRUE]]]
            /\ UNCHANGED out
       ELSE \E parsed \in parse_market_message(text, FeedNow) :
               LET g == [f EXCEPT !.last = [branch |-> "Text", text |-> text,
                                            parsed |-> parsed]]
               IN  IF parsed \in {ParseError, None}
                   THEN feed' = g /\ UNCHANGED out
                   ELSE IF out_open
                   THEN feed' = g /\ out' = Append(out, parsed)
                   ELSE feed' = Stopped(g) /\ UNCHANGED out
    /\ UNCHANGED <<subs, outq>>

FeedOthers == <<bookVars, recVars, runVars, procVars, momVars, unitVars, ws_cfg, token_ids>>

\* select!: ws_rx.recv() yields a message.  (It never yields None while the
\* loop runs: the transport task ends only after it has sent Disconnected,
\* on which the loop breaks.)
FeedRecv ==
    /\ feed.pc = "running"
    /\ feed.read < Len(inbox)
    /\ LET msg == inbox[feed.read + 1]
           f == [feed EXCEPT !.read = @ + 1]
       IN  CASE msg.type = "Connected" -> OnConnected(f)
             [] msg.type = "Text" -> OnText(f, msg.payload)
             [] msg.type = "Reconnecting" ->
                   /\ feed' = [f EXCEPT !.connected = FALSE,
                                        !.last = [branch |-> "Reconnecting"]]
                   /\ UNCHANGED <<subs, outq, out>>
             [] msg.type = "Disconnected" ->
                   /\ feed' = Stopped([f EXCEPT !.last = [branch |-> "Disconnected"]])
                   /\ UNCHANGED <<subs, outq, out>>
             [] OTHER ->
                   /\ feed' = [f EXCEPT !.last = [branch |-> "Binary"]]
                   /\ UNCHANGED <<subs, outq, out>>
    /\ rx_open' = (feed'.pc = "running")
    /\ tx_open' = (feed'.pc = "running")
    /\ UNCHANGED <<FeedOthers, ws, inbox, waits, pong_in, out_open>>

\* select!: tokio::signal::ctrl_c().
FeedCtrlC ==
    /\ feed.pc = "running"
    /\ feed' = Stopped([feed EXCEPT !.last = [branch |-> "ctrl_c"]])
    /\ rx_open' = FALSE
    /\ tx_open' = FALSE
    /\ UNCHANGED <<FeedOthers, ws, inbox, waits, pong_in, subs, outq, out, out_open>>

\* The consumer of the order books drops the output channel's receiver.
DropOut ==
    /\ out_open
    /\ out_open' = FALSE
    /\ UNCHANGED <<FeedOthers, wsVars, feed, subs, out>>

RecvMarketFrame == RecvData(MarketFrames, MaxMarketFrames)

FeedInit ==
    /\ BookStart /\ RecStart /\ RunStart /\ ProcStart /\ MomStart /\ UnitStart
    /\ dry_run = FALSE
    /\ ws_cfg = PolymarketWsConfig
    /\ WsStart
    /\ token_ids \in TokenLists
    /\ FeedStart

\* The keepalive is left out: all it can do to what the loop sees is end
\* the connection with an error, as RecvError does.
FeedNext ==
    \/ ConnectFailed
    \/ ConnectOk
    \/ RecvMarketFrame
    \/ RecvPing
    \/ RecvClose
    \/ RecvError
    \/ Outbound
    \/ OutboundClosed
    \/ BackoffElapsed
    \/ FeedRecv
    \/ FeedCtrlC
    \/ DropOut

SpecFeed == FeedInit /\ [][FeedNext]_vars

(***************************************************************************)
(* Depth-feed properties.                                                  *)
(***************************************************************************)
\* C17: the depth feed has sent one subscription message for each Connected
\* it has taken from the transport, the first and every later one, and each
\* message lists all the requested tokens.  (A loop that has stopped may
\* have failed to send the last one.)
C17_SubscribesOncePerConnected ==
    LET nconnected == Cardinality({i \in 1..feed.read : inbox[i] = Connected})
    IN  /\ \A i \in DOMAIN subs : subs[i] = token_ids
        /\ Len(subs) <= nconnected
        /\ feed.pc = "running" => Len(subs) = nconnected

C17_Witness ==
    /\ feed.pc = "running"
    /\ token_ids = <<"tokA", "tokB">>
    /\ Len(subs) = 2
    /\ \E i \in 1..feed.read : inbox[i] = Reconnecting(1)

\* C18: after a frame that failed to parse, or held no order book, the loop
\* is still running with its output channel open; and every frame that
\* parses to an order book is delivered, whatever failed before it or
\* beside it in the same array.
C18_ParseFailureDropsOnlyTheEvent ==
    feed.last.branch = "Text" =>
        /\ feed.last.parsed \in {ParseError, None} => feed.pc = "running"
        /\ (/\ feed.pc = "running"
            /\ feed.last.parsed \notin {ParseError, None, [skipped |-> TRUE]}) =>
              (out # <<>> /\ out[Len(out)] = feed.last.parsed)

C18_Witness ==
    /\ feed.pc = "running"
    /\ feed.read = Len(inbox)
    /\ \E i \in 1..(Len(inbox) - 1) :
          /\ inbox[i] = Text([json |-> "object", event |-> MalformedBook])
          /\ inbox[i + 1] = Text([json |-> "object", event |-> GoodBook])
    /\ feed.last.branch = "Text"
    /\ out # <<>>
    /\ out[Len(out)] = feed.last.parsed

(***************************************************************************)
(* Live trading loop: RunArgs::execute with MomentumSignalDetector,        *)
(* MomentumDetector, LagDetector and PaperEngine.  Spot prices are whole   *)
(* dollars; odds, edges and costs are in 1/10000 of a dollar; the move     *)
(* thresholds are in 1/1000 of the strike.  Data capture is off            *)
(* (config.data.capture_enabled = false), so the recorder stays idle.      *)
(***************************************************************************)
\* Bounds of the live-loop model.  The last five stand for the configured
\* momentum.window_seconds, momentum.confirmation_seconds,
\* lag.min_seconds_after_open, lag.max_seconds_before_close and
\* risk.max_concurrent_positions.
MaxTicks == 2
WindowSeconds == 2
ConfirmationSeconds == 1
MinSecondsAfterOpen == 1
MaxSecondsBeforeClose == 1
max_concurrent_positions == 1

\* Configuration defaults.
min_move_pct == 7             \* 0.007 of the strike
max_move_pct == 50            \* 0.05 of the strike
min_lag_cents == 1000         \* 0.10
max_yes_for_up == 6000        \* 0.60
min_yes_for_down == 4000      \* 0.40
price_sensitivity == 10
fee_rate == 50                \* 0.005
slippage_estimate == 10       \* 0.001

\* Markets the discovery API can return.  The first is inside its trading
\* window for the whole behaviour once it has been open long enough; the
\* second opens a second later and closes within the behaviour.
Markets ==
    {[condition_id |-> "m1", yes_token_id |-> "tokA", no_token_id |-> "tokA_no",
      open_price |-> 1000, open_time |-> 0,
      close_time |-> MaxTime + MaxSecondsBeforeClose],
     [condition_id |-> "m2", yes_token_id |-> "tokB", no_token_id |-> "tokB_no",
      open_price |-> 1000, open_time |-> 1,
      close_time |-> MaxTime + MaxSecondsBeforeClose - 1]}

\* Spot prices a tick can carry: the strike, 1% above, 1% below, 10% above.
TickPrices == {1000, 1010, 990, 1100}

\* Books the depth feed can deliver for a subscribed token: an ask at 0.45
\* or an ask at 0.70 (a token without a stored book has no ask).
RunBooks ==
    {[token_id |-> t, bids |-> <<>>, asks |-> a, updated_at |-> 0] :
        t \in TokenIds,
        a \in {<<[price |-> 4500, size |-> 1]>>, <<[price |-> 7000, size |-> 1]>>}}

\* The pop_front loop of MomentumDetector::update.
RECURSIVE DropOld(_, _)
DropOld(prices, cutoff) ==
    IF prices # <<>> /\ Head(prices).ts < cutoff
    THEN DropOld(Tail(prices), cutoff)
    ELSE prices

\* MomentumSignalDetector::update_price -> MomentumDetector::update.
update_price(d, timestamp, price) ==
    [d EXCEPT !.prices = DropOld(Append(d.prices, [ts |-> timestamp, price |-> price]),
                                 timestamp - WindowSeconds)]

\* momentum_detect without the sanity ceiling on the move.
momentum_detect_no_ceiling(d, strike_price) ==
    IF d.prices = <<>> \/ strike_price = 0 THEN [det |-> d, momentum |-> None]
    ELSE LET current == d.prices[Len(d.prices)]
             diff == current.price - strike_price
             abs_diff == Abs(diff)
             direction == IF diff > 0 THEN "Up" ELSE "Down"
         IN  IF abs_diff * 1000 < min_move_pct * strike_price
             THEN [det |-> [d EXCEPT !.last_direction = NoDirection,
                                     !.direction_start = NoTime],
                   momentum |-> None]
             ELSE IF d.last_direction = direction
             THEN IF /\ d.direction_start # NoTime
                     /\ current.ts - d.direction_start >= ConfirmationSeconds
                  THEN [det |-> d,
                        momentum |-> [direction |-> direction,
                                      move_pct |-> (abs_diff * 10000) \div strike_price,
                                      strike_price |-> strike_price,
                                      current_price |-> current.price]]
                  ELSE [det |-> d, momentum |-> None]
             ELSE [det |-> [d EXCEPT !.last_direction = direction,
                                     !.direction_start = current.ts],
                   momentum |-> None]

\* momentum_detect where a move below min_move_pct leaves the confirmation
\* state as it was.
momentum_detect_keeps_timer(d, strike_price) ==
    IF d.prices = <<>> \/ strike_price = 0 THEN [det |-> d, momentum |-> None]
    ELSE LET current == d.prices[Len(d.prices)]
             abs_diff == Abs(current.price - strike_price)
         IN  IF \/ abs_diff * 1000 < min_move_pct * strike_price
                \/ abs_diff * 1000 > max_move_pct * strike_price
             THEN [det |-> d, momentum |-> None]
             ELSE momentum_detect_no_ceiling(d, strike_price)

\* momentum_detect where a move above max_move_pct clears the confirmation
\* state as a move below min_move_pct does.
momentum_detect_ceiling_resets(d, strike_price) ==
    IF d.prices = <<>> \/ strike_price = 0 THEN [det |-> d, momentum |-> None]
    ELSE LET current == d.prices[Len(d.prices)]
             abs_diff == Abs(current.price - strike_price)
         IN  IF abs_diff * 1000 > max_move_pct * strike_price
             THEN [det |-> [d EXCEPT !.last_direction = NoDirection,
                                     !.direction_start = NoTime],
                   momentum |-> None]
             ELSE momentum_detect_no_ceiling(d, strike_price)

\* MomentumDetector::detect: the detector after the call and the returned
\* Option<MomentumSignal>.  move_pct is in 1/10000 of the strike (exact for
\* the strikes and prices of the model); velocity and confidence, which only
\* feed the order size, are left out.
momentum_detect(d, strike_price) ==
    IF d.prices = <<>> \/ strike_price = 0 THEN [det |-> d, momentum |-> None]
    ELSE LET current == d.prices[Len(d.prices)]
             diff == current.price - strike_price
             abs_diff == Abs(diff)
             direction == IF diff > 0 THEN "Up" ELSE "Down"
         IN  IF abs_diff * 1000 < min_move_pct * strike_price
             THEN [det |-> [d EXCEPT !.last_direction = NoDirection,
                                     !.direction_start = NoTime],
                   momentum |-> None]
             ELSE IF abs_diff * 1000 > max_move_pct * strike_price
             THEN [det |-> d, momentum |-> None]
             ELSE IF d.last_direction = direction
             THEN IF /\ d.direction_start # NoTime
                     /\ current.ts - d.direction_start >= ConfirmationSeconds
                  THEN [det |-> d,
                        momentum |-> [direction |-> direction,
                                      move_pct |-> (abs_diff * 10000) \div strike_price,
                                      strike_price |-> strike_price,
                                      current_price |-> current.price]]
                  ELSE [det |-> d, momentum |-> None]
             ELSE [det |-> [d EXCEPT !.last_direction = direction,
                                     !.direction_start = current.ts],
                   momentum |-> None]

\* MomentumSignalDetector::get_odds_state.
get_odds_state(orderbook) ==
    IF best_ask(orderbook) = NoDecimal THEN None
    ELSE [yes_price |-> best_ask(orderbook), no_price |-> 10000 - best_ask(orderbook)]

\* LagDetector::calculate_expected_price.
calculate_expected_price(momentum) ==
    LET adjustment == (momentum.move_pct * 100 * price_sensitivity) \div 100
    IN  Min(Max(5000 + adjustment, 1000), 9000)

\* LagDetector::detect at wall-clock time `at`: Ok(Some(signal)) as the
\* signal, every Err as None.
lag_detect(momentum, odds, market, at) ==
    LET seconds_since_open == at - market.open_time
        seconds_until_close == market.close_time - at
        expected_price == calculate_expected_price(momentum)
        expected_yes == 10000 - expected_price
    IN  IF seconds_since_open < MinSecondsAfterOpen THEN None
        ELSE IF seconds_until_close < MaxSecondsBeforeClose THEN None
        ELSE IF at < market.open_time \/ at > market.close_time THEN None
        ELSE IF momentum.direction = "Up"
        THEN IF odds.yes_price >= max_yes_for_up THEN None
             ELSE IF expected_price - odds.yes_price < min_lag_cents THEN None
             ELSE [side |-> "Yes", lag_magnitude |-> expected_price - odds.yes_price,
                   expected_price |-> expected_price, actual_price |-> odds.yes_price]
        ELSE IF odds.yes_price <= min_yes_for_down THEN None
             ELSE IF odds.yes_price - expected_yes < min_lag_cents THEN None
             ELSE [side |-> "No", lag_magnitude |-> odds.yes_price - expected_yes,
                   expected_price |-> expected_yes, actual_price |-> odds.yes_price]

\* MomentumSignalDetector::lag_signal_to_signal.
lag_signal_to_signal(lag, market) ==
    [market |-> market.condition_id,
     side |-> lag.side,
     fair_value |-> lag.expected_price,
     market_price |-> lag.actual_price,
     raw_edge |-> lag.lag_magnitude,
     adjusted_edge |-> Max(lag.lag_magnitude - (fee_rate + slippage_estimate), 0)]

\* MomentumSignalDetector::detect: the momentum detector after the call and
\* the returned Option<Signal>.
signal_detect(d, market, orderbook, at) ==
    LET m == momentum_detect(d, market.open_price)
        odds == get_odds_state(orderbook)
        lag == lag_detect(m.momentum, odds, market, at)
    IN  IF m.momentum = None THEN [det |-> m.det, signal |-> None]
        ELSE IF odds = None THEN [det |-> m.det, signal |-> None]
        ELSE IF lag = None THEN [det |-> m.det, signal |-> None]
        ELSE [det |-> m.det, signal |-> lag_signal_to_signal(lag, market)]

\* OrderBook::new: the synthetic empty book used when none is stored.
OrderBookNew(token_id, at) ==
    [token_id |-> token_id, bids |-> <<>>, asks |-> <<>>, updated_at |-> at]

\* PaperEngine::submit_order: the order is filled at its price and the fill
\* is appended to the fill log (size, fees and timestamp are left out).
submit_order(fs, order) ==
    Append(fs, [token_id |-> order.token_id, side |-> order.side, price |-> order.price])

\* The body of the trading loop for one market, with execution attempted on
\* every signal whatever the mode.
ProcessMarketAlwaysExecutes(st, market) ==
    LET seconds_since_open == now - market.open_time
        seconds_until_close == market.close_time - now
        orderbook == IF market.yes_token_id \in DOMAIN books
                     THEN books[market.yes_token_id]
                     ELSE OrderBookNew(market.yes_token_id, now)
        r == signal_detect(st.det, market, orderbook, now)
        signalled == [st EXCEPT !.det = r.det, !.signals = @ + 1]
        again == momentum_detect(r.det, market.open_price)
        order == [token_id |-> IF r.signal.side = "Yes" THEN market.yes_token_id
                               ELSE market.no_token_id,
                  side |-> r.signal.side,
                  price |-> r.signal.market_price]
    IN  IF seconds_since_open < MinSecondsAfterOpen THEN st
        ELSE IF seconds_until_close < MaxSecondsBeforeClose THEN st
        ELSE IF r.signal = None THEN [st EXCEPT !.det = r.det]
        ELSE IF again.momentum = None THEN [signalled EXCEPT !.det = again.det]
        ELSE [signalled EXCEPT !.det = again.det,
                               !.fills = submit_order(@, order),
                               !.trades = @ + 1]

\* The body of the trading loop for one market (run.rs, `for market in
\* markets.values()`): window check, book lookup, detection and, when not
\* in dry-run, the order.
ProcessMarket(st, market) ==
    LET seconds_since_open == now - market.open_time
        seconds_until_close == market.close_time - now
        orderbook == IF market.yes_token_id \in DOMAIN books
                     THEN books[market.yes_token_id]
                     ELSE OrderBookNew(market.yes_token_id, now)
        r == signal_detect(st.det, market, orderbook, now)
        signalled == [st EXCEPT !.det = r.det, !.signals = @ + 1]
        again == momentum_detect(r.det, market.open_price)
        order == [token_id |-> IF r.signal.side = "Yes" THEN market.yes_token_id
                               ELSE market.no_token_id,
                  side |-> r.signal.side,
                  price |-> r.signal.market_price]
    IN  IF seconds_since_open < MinSecondsAfterOpen THEN st
        ELSE IF seconds_until_close < MaxSecondsBeforeClose THEN st
        ELSE IF r.signal = None THEN [st EXCEPT !.det = r.det]
        ELSE IF dry_run THEN signalled
        ELSE IF again.momentum = None THEN [signalled EXCEPT !.det = again.det]
        ELSE [signalled EXCEPT !.det = again.det,
                               !.fills = submit_order(@, order),
                               !.trades = @ + 1]

\* The for loop over markets.values(), in the order the HashMap yields.
RECURSIVE ProcessMarkets(_, _)
ProcessMarkets(st, order) ==
    IF order = <<>> THEN st
    ELSE ProcessMarkets(ProcessMarket(st, active_markets[Head(order)]), Tail(order))

\* The orders in which a HashMap with these keys can be iterated.
IterationOrders(keys) ==
    {o \in [1..Cardinality(keys) -> keys] : \A i, j \in DOMAIN o : i # j => o[i] # o[j]}

\* One iteration of `while let Some(tick) = price_rx.recv().await`.
PriceTick ==
    /\ nTicks < MaxTicks
    /\ nTicks' = nTicks + 1
    /\ \E price \in TickPrices :
          \E order \in IterationOrders(DOMAIN active_markets) :
              LET st == ProcessMarkets(
                            [det |-> update_price(detector, now, price), fills |-> fills,
                             signals |-> signals_generated, trades |-> trades_executed],
                            order)
              IN  /\ detector' = st.det
                  /\ fills' = st.fills
                  /\ signals_generated' = st.signals
                  /\ trades_executed' = st.trades
    /\ UNCHANGED <<bookVars, recVars, restVars, dry_run, active_markets, subscribed_tokens>>

\* The discovery task: fetch_btc_markets returns Ok(markets); the map is
\* replaced and the YES tokens not yet subscribed are subscribed, which
\* either succeeds or fails.
RefreshMarkets ==
    /\ \E fetched \in SUBSET Markets :
          LET new_tokens == {m.yes_token_id : m \in fetched} \ subscribed_tokens
          IN  /\ active_markets' =
                    [c \in {m.condition_id : m \in fetched} |->
                        CHOOSE m \in fetched : m.condition_id = c]
              /\ \E subscribed \in BOOLEAN :
                    subscribed_tokens' = IF subscribed THEN subscribed_tokens \cup new_tokens
                                         ELSE subscribed_tokens
    /\ UNCHANGED <<bookVars, recVars, restVars, dry_run, detector, fills, signals_generated,
                   trades_executed, nTicks>>

\* The order-book task spawned per subscription: a book received from the
\* depth feed is applied to the store.
RunBookUpdate ==
    /\ \E book \in RunBooks :
          /\ book.token_id \in subscribed_tokens
          /\ books' = update(books, book)
    /\ UNCHANGED <<lastMsg, nUpdates, recVars, runVars, restVars>>

RunInit == BookStart /\ RecStart /\ RunStart /\ RestStart /\ dry_run \in BOOLEAN

RunNext ==
    \/ PriceTick
    \/ RefreshMarkets
    \/ RunBookUpdate
    \/ Tick

SpecRun == RunInit /\ [][RunNext]_vars

(***************************************************************************)
(* MomentumDetector on its own: update and detect called by any caller,    *)
(* with spot prices at, just inside and just outside the two thresholds.   *)
(***************************************************************************)
\* Spot prices: against a strike of 1000 they are a move of 0, 0.6%, 0.7%
\* up, 0.7% down, 5% up, 5.1% up and 5% down.
MomentumPrices == {1000, 1006, 1007, 993, 1050, 1051, 950}

\* Strike prices passed to detect.
Strikes == {1000, 990}

\* Calls of detect followed in one behaviour.
MaxDetects == 3

\* MomentumDetector::update with the current time and a spot price.
MomentumUpdate ==
    /\ nTicks < MaxTicks
    /\ \E price \in MomentumPrices : detector' = update_price(detector, now, price)
    /\ nTicks' = nTicks + 1
    /\ UNCHANGED <<bookVars, recVars, procVars, netVars, momVars, unitVars, dry_run,
                   active_markets,
                   fills, signals_generated, trades_executed, subscribed_tokens>>

\* How a caller of detect sees the latest observation against the strike:
\* below min_move_pct, above max_move_pct, or a move Up or Down in between.
Classify(price, strike_price) ==
    LET abs_diff == Abs(price - strike_price)
    IN  IF abs_diff * 1000 < min_move_pct * strike_price THEN "small"
        ELSE IF abs_diff * 1000 > max_move_pct * strike_price THEN "extreme"
        ELSE IF price > strike_price THEN "Up" ELSE "Down"

\* MomentumDetector::detect(strike_price).  Every call that has a price to
\* look at is logged with the timestamp of that price and its class.
MomentumDetect ==
    /\ detector.prices # <<>> => Len(observed) < MaxDetects
    /\ \E strike_price \in Strikes :
          LET r == momentum_detect(detector, strike_price)
              current == detector.prices[Len(detector.prices)]
          IN  /\ detector' = r.det
              /\ emitted' = r.momentum
              /\ observed' =
                    IF detector.prices = <<>> THEN observed
                    ELSE Append(observed,
                                [ts |-> current.ts,
                                 class |-> Classify(current.price, strike_price)])
    /\ UNCHANGED <<bookVars, recVars, procVars, netVars, unitVars, dry_run, active_markets,
                   fills, signals_generated, trades_executed, subscribed_tokens, nTicks>>

MomentumInit == RunInit /\ dry_run = FALSE

MomentumNext == MomentumUpdate \/ MomentumDetect \/ Tick

SpecMomentum == MomentumInit /\ [][MomentumNext]_vars

(***************************************************************************)
(* The sliding window on its own: update is a public method and takes the  *)
(* timestamp from its caller, so observations may arrive in any order.     *)
(***************************************************************************)
\* Calls of update followed in one behaviour.
MaxObservations == 3

\* Timestamps a caller can pass to update.
ObservationTimes == 0..MaxTime

\* MomentumDetector::update(timestamp, price) for any timestamp.
WindowUpdate ==
    /\ nTicks < MaxObservations
    /\ \E timestamp \in ObservationTimes, price \in MomentumPrices :
          detector' = update_price(detector, timestamp, price)
    /\ nTicks' = nTicks + 1
    /\ UNCHANGED <<bookVars, recVars, procVars, netVars, momVars, unitVars, dry_run,
                   active_markets,
                   fills, signals_generated, trades_executed, subscribed_tokens>>

WindowInit == MomentumInit

WindowNext == WindowUpdate

SpecWindow == WindowInit /\ [][WindowNext]_vars

(***************************************************************************)
(* LagDetector::detect_at on its own: any momentum, odds, market and       *)
(* evaluation time.                                                        *)
(***************************************************************************)
\* Result<Option<LagSignal>, NoLagReason>.
Err(reason) == [err |-> reason]
Ok(value) == [ok |-> value]

\* detect_at with the odds and lag-magnitude checks ahead of the
\* trading-window checks.
detect_at_odds_first(momentum, odds, market, at) ==
    LET seconds_since_open == at - market.open_time
        seconds_until_close == market.close_time - at
        expected_price == calculate_expected_price(momentum)
        expected_yes == 10000 - expected_price
        lag == IF momentum.direction = "Up" THEN expected_price - odds.yes_price
               ELSE odds.yes_price - expected_yes
    IN  IF momentum.direction = "Up" /\ odds.yes_price >= max_yes_for_up
        THEN Err("OddsAlreadyMoved")
        ELSE IF momentum.direction = "Down" /\ odds.yes_price <= min_yes_for_down
        THEN Err("OddsAlreadyMoved")
        ELSE IF lag < min_lag_cents THEN Err("LagTooSmall")
        ELSE IF seconds_since_open < MinSecondsAfterOpen THEN Err("TooEarlyInWindow")
        ELSE IF seconds_until_close < MaxSecondsBeforeClose THEN Err("TooCloseToClose")
        ELSE IF at < market.open_time \/ at > market.close_time THEN Err("MarketNotActive")
        ELSE Ok([side |-> IF momentum.direction = "Up" THEN "Yes" ELSE "No",
                 lag_magnitude |-> lag,
                 expected_price |-> IF momentum.direction = "Up" THEN expected_price
                                    ELSE expected_yes,
                 actual_price |-> odds.yes_price])

\* LagDetector::detect_at(momentum, odds, market, now).
detect_at(momentum, odds, market, at) ==
    LET seconds_since_open == at - market.open_time
        seconds_until_close == market.close_time - at
        expected_price == calculate_expected_price(momentum)
        expected_yes == 10000 - expected_price
    IN  IF seconds_since_open < MinSecondsAfterOpen THEN Err("TooEarlyInWindow")
        ELSE IF seconds_until_close < MaxSecondsBeforeClose THEN Err("TooCloseToClose")
        ELSE IF at < market.open_time \/ at > market.close_time THEN Err("MarketNotActive")
        ELSE IF momentum.direction = "Up"
        THEN IF odds.yes_price >= max_yes_for_up THEN Err("OddsAlreadyMoved")
             ELSE IF expected_price - odds.yes_price < min_lag_cents THEN Err("LagTooSmall")
             ELSE Ok([side |-> "Yes", lag_magnitude |-> expected_price - odds.yes_price,
                      expected_price |-> expected_price, actual_price |-> odds.yes_price])
        ELSE IF odds.yes_price <= min_yes_for_down THEN Err("OddsAlreadyMoved")
             ELSE IF odds.yes_price - expected_yes < min_lag_cents THEN Err("LagTooSmall")
             ELSE Ok([side |-> "No", lag_magnitude |-> odds.yes_price - expected_yes,
                      expected_price |-> expected_yes, actual_price |-> odds.yes_price])

\* Confirmed momentum of 1% either way: the expected YES price is 0.60 for
\* Up and 0.40 for Down.
LagMomenta ==
    {[direction |-> d, move_pct |-> 100, strike_price |-> 1000,
      current_price |-> IF d = "Up" THEN 1010 ELSE 990] : d \in {"Up", "Down"}}

\* OddsState::from_yes_price for YES prices on both sides of the odds caps
\* and of the minimum lag.
LagOdds == {[yes_price |-> y, no_price |-> 10000 - y] : y \in {3500, 4500, 5500, 6500}}

\* Two markets that open after time zero and close within the times below.
LagMarkets ==
    {[condition_id |-> "m1", yes_token_id |-> "tokA", no_token_id |-> "tokA_no",
      open_price |-> 1000, open_time |-> 2, close_time |-> 7],
     [condition_id |-> "m2", yes_token_id |-> "tokB", no_token_id |-> "tokB_no",
      open_price |-> 1000, open_time |-> 3, close_time |-> 5]}

\* Evaluation times before, within and after both markets.
LagTimes == 0..9

\* One call of detect_at.
LagDetectAt ==
    /\ \E momentum \in LagMomenta, odds \in LagOdds, market \in LagMarkets, at \in LagTimes :
          lag_call' = [momentum |-> momentum, odds |-> odds, market |-> market, at |-> at,
                       result |-> detect_at(momentum, odds, market, at)]
    /\ UNCHANGED <<bookVars, recVars, runVars, procVars, netVars, momVars, spreadVars, pe,
                   ledgerVars, moreUnitVars>>

LagInit == RunInit /\ dry_run = FALSE

LagNext == LagDetectAt

SpecLag == LagInit /\ [][LagNext]_vars

(***************************************************************************)
(* Lag-detector properties.                                                *)
(***************************************************************************)
\* C24: a call of detect_at whose time is less than MinSecondsAfterOpen after
\* the open or less than MaxSecondsBeforeClose before the close is rejected
\* as TooEarlyInWindow or TooCloseToClose whatever the odds and the lag are
\* (too early takes precedence), never as LagTooSmall or OddsAlreadyMoved and
\* never with a signal.
C24_WindowChecksComeFirst ==
    lag_call # None =>
        LET too_early == lag_call.at - lag_call.market.open_time < MinSecondsAfterOpen
            too_close == lag_call.market.close_time - lag_call.at < MaxSecondsBeforeClose
        IN  /\ too_early => lag_call.result = Err("TooEarlyInWindow")
            /\ (~too_early /\ too_close) => lag_call.result = Err("TooCloseToClose")

\* A too-early call whose odds had already moved, and which is rejected for
\* the time all the same.
C24_Witness ==
    /\ lag_call # None
    /\ lag_call.momentum.direction = "Up"
    /\ lag_call.odds.yes_price >= max_yes_for_up
    /\ lag_call.at >= lag_call.market.open_time
    /\ lag_call.result = Err("TooEarlyInWindow")

\* C25: a call of detect_at at a time before the market's open_time or after
\* its close_time is rejected as MarketNotActive.
C25_OutsideMarketIsNotActive ==
    (lag_call # None /\ (\/ lag_call.at < lag_call.market.open_time
                         \/ lag_call.at > lag_call.market.close_time))
        => lag_call.result = Err("MarketNotActive")

(***************************************************************************)
(* Spread capture: SpreadDetector and the SpreadOrchestrator task.  Time   *)
(* is in milliseconds here, prices in 1/10000 and sizes in tenths.         *)
(***************************************************************************)
max_book_age_ms == 1
max_positions == 1
MaxChecks == 2       \* runs of check_spreads in one behaviour
MaxRecorded == 1     \* positions recorded on one market at a time

min_profit_pct == 200
fee_rate_per_side == 50
base_size_usd == 50

\* The market the tracker reports; it expires at the end of the behaviour.
SpreadMarket ==
    [condition_id |-> "m1", yes_token_id |-> "tokA", no_token_id |-> "tokA_no",
     open_price |-> 1000, open_time |-> 0, close_time |-> MaxTime]

\* Markets a caller records and closes positions on.
SpreadMarketIds == {"m1", "m2"}

\* Ask sides passed to detect: none, or one level at 0.48, 0.49 or 0.50
\* with 0.5 or 100 on offer.
SpreadAsks ==
    {<<>>} \cup {<<[price |-> p, size |-> z]>> : p \in {4800, 4900, 5000}, z \in {5, 1000}}

\* Ask sides delivered to the orchestrator: 100 on offer at 0.48.
OrchestratorAsks == {<<[price |-> 4800, size |-> 1000]>>}

\* OrderBook::best_ask_size.
best_ask_size(book) == IF book.asks = <<>> THEN NoDecimal ELSE Head(book.asks).size

\* MarketBooks::new.
MarketBooksNew(yes_book, no_book) ==
    [yes_book |-> yes_book, no_book |-> no_book,
     updated_at |-> Max(yes_book.updated_at, no_book.updated_at)]

\* MarketBooks::max_age_ms with the clock read at `at`.
max_age_ms(mb, at) == Max(at - mb.yes_book.updated_at, at - mb.no_book.updated_at)

\* detect without the minimum-profit threshold.
spread_detect_no_threshold(market, mb, at) ==
    LET yes_ask == best_ask(mb.yes_book)
        no_ask == best_ask(mb.no_book)
        total_cost == yes_ask + no_ask
        gross_profit == 10000 - total_cost
        net_profit == gross_profit - fee_rate_per_side * 2
        size_per_leg == Min(base_size_usd,
                            Min(best_ask_size(mb.yes_book), best_ask_size(mb.no_book)))
    IN  IF max_age_ms(mb, at) > max_book_age_ms THEN None
        ELSE IF yes_ask = NoDecimal \/ no_ask = NoDecimal THEN None
        ELSE IF gross_profit <= 0 THEN None
        ELSE IF net_profit <= 0 THEN None
        ELSE IF size_per_leg < 10 THEN None
        ELSE [market |-> market.condition_id, yes_price |-> yes_ask, no_price |-> no_ask,
              total_cost |-> total_cost, gross_profit |-> gross_profit,
              net_profit |-> net_profit,
              profit_pct |-> (net_profit * 10000) \div total_cost,
              size_per_leg_usd |-> size_per_leg]

\* detect taking the age of the books from MarketBooks.updated_at, the
\* newer of the two.
spread_detect_newest_book(market, mb, at) ==
    LET yes_ask == best_ask(mb.yes_book)
        no_ask == best_ask(mb.no_book)
        total_cost == yes_ask + no_ask
        gross_profit == 10000 - total_cost
        net_profit == gross_profit - fee_rate_per_side * 2
        size_per_leg == Min(base_size_usd,
                            Min(best_ask_size(mb.yes_book), best_ask_size(mb.no_book)))
    IN  IF at - mb.updated_at > max_book_age_ms THEN None
        ELSE IF yes_ask = NoDecimal \/ no_ask = NoDecimal THEN None
        ELSE IF gross_profit <= 0 THEN None
        ELSE IF net_profit <= 0 THEN None
        ELSE IF net_profit * 10000 < min_profit_pct * total_cost THEN None
        ELSE IF size_per_leg < 10 THEN None
        ELSE [market |-> market.condition_id, yes_price |-> yes_ask, no_price |-> no_ask,
              total_cost |-> total_cost, gross_profit |-> gross_profit,
              net_profit |-> net_profit,
              profit_pct |-> (net_profit * 10000) \div total_cost,
              size_per_leg_usd |-> size_per_leg]

\* SpreadDetector::detect with the clock read at `at`.  profit_pct is
\* net_profit / total_cost in 1/10000, rounded down; the test against
\* min_profit_pct is exact (total_cost is positive for the asks above).
spread_detect(market, mb, at) ==
    LET yes_ask == best_ask(mb.yes_book)
        no_ask == best_ask(mb.no_book)
        total_cost == yes_ask + no_ask
        gross_profit == 10000 - total_cost
        net_profit == gross_profit - fee_rate_per_side * 2
        size_per_leg == Min(base_size_usd,
                            Min(best_ask_size(mb.yes_book), best_ask_size(mb.no_book)))
    IN  IF max_age_ms(mb, at) > max_book_age_ms THEN None
        ELSE IF yes_ask = NoDecimal \/ no_ask = NoDecimal THEN None
        ELSE IF gross_profit <= 0 THEN None
        ELSE IF net_profit <= 0 THEN None
        ELSE IF net_profit * 10000 < min_profit_pct * total_cost THEN None
        ELSE IF size_per_leg < 10 THEN None
        ELSE [market |-> market.condition_id, yes_price |-> yes_ask, no_price |-> no_ask,
              total_cost |-> total_cost, gross_profit |-> gross_profit,
              net_profit |-> net_profit,
              profit_pct |-> (net_profit * 10000) \div total_cost,
              size_per_leg_usd |-> size_per_leg]

\* active_positions.get(market_id).unwrap_or(&0).
PositionCount(ap, market_id) == IF market_id \in DOMAIN ap THEN ap[market_id] ELSE 0

\* SpreadDetector::add_position.
add_position(ap, market_id) ==
    [m \in DOMAIN ap \cup {market_id} |->
        IF m = market_id THEN PositionCount(ap, market_id) + 1 ELSE ap[m]]

\* SpreadDetector::remove_position.
remove_position(ap, market_id) ==
    IF market_id \in DOMAIN ap /\ ap[market_id] > 0
    THEN [ap EXCEPT ![market_id] = ap[market_id] - 1]
    ELSE ap

\* A gate that lets every market through.
can_take_position_always(ap, market_id) == TRUE

\* SpreadDetector::can_take_position.
can_take_position(ap, market_id) == PositionCount(ap, market_id) < max_positions

SpreadOthers == <<bookVars, rec_ch, rec_open, wr, pw, files, stats, write_failed, next_id,
                  last_call, runVars, procVars, netVars, momVars, lag_call, pe, ledgerVars,
                  moreUnitVars>>

\* SpreadOrchestrator::update_order_book, called by the task for a book
\* from its channel or by any other holder of the orchestrator.
UpdateOrderBook ==
    /\ \E token_id \in {SpreadMarket.yes_token_id, SpreadMarket.no_token_id},
          asks \in OrchestratorAsks :
          sp_books' = Insert(sp_books, [token_id |-> token_id, bids |-> <<>>,
                                        asks |-> asks, updated_at |-> now])
    /\ UNCHANGED <<SpreadOthers, now, sp_positions, sp_check, sp_out, sp_last>>

\* SpreadOrchestrator::record_position.
RecordPosition ==
    /\ \E market_id \in SpreadMarketIds :
          /\ PositionCount(sp_positions, market_id) < MaxRecorded
          /\ sp_positions' = add_position(sp_positions, market_id)
    /\ UNCHANGED <<SpreadOthers, now, sp_books, sp_check, sp_out, sp_last>>

\* SpreadOrchestrator::close_position.
ClosePosition ==
    /\ \E market_id \in SpreadMarketIds :
          sp_positions' = remove_position(sp_positions, market_id)
    /\ UNCHANGED <<SpreadOthers, now, sp_books, sp_check, sp_out, sp_last>>

\* The interval tick of the task: check_spreads starts and fetches the
\* active markets.
CheckStart ==
    /\ sp_check.pc = "idle"
    /\ sp_check.checks < MaxChecks
    /\ sp_check' = [sp_check EXCEPT !.pc = "markets", !.todo = <<SpreadMarket>>,
                                    !.signals = <<>>, !.checks = @ + 1]
    /\ UNCHANGED <<SpreadOthers, now, sp_books, sp_positions, sp_out, sp_last>>

\* check_spreads for the next market up to get_market_books: an expired
\* market or one with a missing book is skipped, otherwise both books are
\* cloned under the read lock.
CheckBooks ==
    /\ sp_check.pc = "markets"
    /\ sp_check.todo # <<>>
    /\ LET market == Head(sp_check.todo)
       IN  IF \/ market.close_time <= now
              \/ market.yes_token_id \notin DOMAIN sp_books
              \/ market.no_token_id \notin DOMAIN sp_books
           THEN sp_check' = [sp_check EXCEPT !.todo = Tail(@)]
           ELSE sp_check' = [sp_check EXCEPT
                                !.pc = "detect",
                                !.books = MarketBooksNew(sp_books[market.yes_token_id],
                                                         sp_books[market.no_token_id])]
    /\ UNCHANGED <<SpreadOthers, now, sp_books, sp_positions, sp_out, sp_last>>

\* check_spreads for that market under the second read lock:
\* can_take_position, then detect, then the push onto the local signals.
CheckDetect ==
    /\ sp_check.pc = "detect"
    /\ LET market == Head(sp_check.todo)
           allowed == can_take_position(sp_positions, market.condition_id)
           signal == IF allowed THEN spread_detect(market, sp_check.books, now) ELSE None
       IN  /\ sp_check' = [sp_check EXCEPT
                              !.pc = "markets",
                              !.todo = Tail(@),
                              !.books = None,
                              !.signals = IF signal = None THEN @ ELSE Append(@, signal)]
           /\ sp_last' = [market |-> market.condition_id,
                          books |-> sp_check.books,
                          age_ms |-> max_age_ms(sp_check.books, now),
                          positions |-> PositionCount(sp_positions, market.condition_id),
                          detect_called |-> allowed,
                          result |-> signal]
    /\ UNCHANGED <<SpreadOthers, now, sp_books, sp_positions, sp_out>>

\* check_spreads returns its signals to the task.
CheckReturn ==
    /\ sp_check.pc = "markets"
    /\ sp_check.todo = <<>>
    /\ sp_check' = [sp_check EXCEPT
                       !.pc = IF sp_check.signals = <<>> THEN "idle" ELSE "sending"]
    /\ UNCHANGED <<SpreadOthers, now, sp_books, sp_positions, sp_out, sp_last>>

\* The task sends the next signal on the signal channel (64 slots, never
\* full here; its receiver is held by the caller throughout).
SendSignal ==
    /\ sp_check.pc = "sending"
    /\ sp_out' = Append(sp_out, Head(sp_check.signals).market)
    /\ sp_check' = [sp_check EXCEPT
                       !.signals = Tail(@),
                       !.pc = IF Tail(sp_check.signals) = <<>> THEN "idle" ELSE "sending"]
    /\ UNCHANGED <<SpreadOthers, now, sp_books, sp_positions, sp_last>>

\* SpreadDetector::detect called directly on any pair of books, each
\* stamped at or before the time of the call.
SpreadDetectCall ==
    /\ \E yes_asks \in SpreadAsks, no_asks \in SpreadAsks,
          yes_at \in 0..now, no_at \in 0..now :
          LET mb == MarketBooksNew([token_id |-> SpreadMarket.yes_token_id, bids |-> <<>>,
                                    asks |-> yes_asks, updated_at |-> yes_at],
                                   [token_id |-> SpreadMarket.no_token_id, bids |-> <<>>,
                                    asks |-> no_asks, updated_at |-> no_at])
          IN  sp_last' = [market |-> SpreadMarket.condition_id,
                          books |-> mb,
                          age_ms |-> max_age_ms(mb, now),
                          positions |-> PositionCount(sp_positions, SpreadMarket.condition_id),
                          detect_called |-> TRUE,
                          result |-> spread_detect(SpreadMarket, mb, now)]
    /\ UNCHANGED <<SpreadOthers, now, sp_books, sp_positions, sp_check, sp_out>>

SpreadInit == RunInit /\ dry_run = FALSE

SpreadDetectNext == SpreadDetectCall \/ Tick

SpecSpreadDetect == SpreadInit /\ [][SpreadDetectNext]_vars

SpreadNext ==
    \/ UpdateOrderBook
    \/ RecordPosition
    \/ ClosePosition
    \/ CheckStart
    \/ CheckBooks
    \/ CheckDetect
    \/ CheckReturn
    \/ SendSignal
    \/ Tick

SpecSpread == SpreadInit /\ [][SpreadNext]_vars

(***************************************************************************)
(* Spread-capture properties.                                              *)
(***************************************************************************)
\* The asks of both books make a spread the detector accepts.
SpreadIsProfitable(mb) ==
    LET yes_ask == best_ask(mb.yes_book)
        no_ask == best_ask(mb.no_book)
        net == 10000 - (yes_ask + no_ask) - 2 * fee_rate_per_side
    IN  /\ yes_ask # NoDecimal /\ no_ask # NoDecimal
        /\ yes_ask + no_ask < 10000
        /\ net > 0
        /\ net * 10000 >= min_profit_pct * (yes_ask + no_ask)
        /\ Min(base_size_usd, Min(best_ask_size(mb.yes_book), best_ask_size(mb.no_book))) >= 10

\* C26: a SpreadSignal returned by detect has total_cost (the YES ask plus the NO ask) below 1, net_profit
\* (1 - total_cost - two fees) above 0 and profit_pct (net_profit over
\* total_cost) at least min_profit_pct, all three at once.
C26_SignalIsProfitable ==
    LET Sound(signal) ==
            /\ signal.total_cost = signal.yes_price + signal.no_price
            /\ signal.total_cost < 10000
            /\ signal.net_profit = 10000 - signal.total_cost - 2 * fee_rate_per_side
            /\ signal.net_profit > 0
            /\ signal.net_profit * 10000 >= min_profit_pct * signal.total_cost
            /\ signal.profit_pct >= min_profit_pct
    IN  (sp_last # None /\ sp_last.result # None) =>
            /\ Sound(sp_last.result)
            /\ sp_last.result.yes_price = best_ask(sp_last.books.yes_book)
            /\ sp_last.result.no_price = best_ask(sp_last.books.no_book)

\* A signal for the thinnest spread that passes: 0.48 + 0.49.
C26_Witness ==
    /\ sp_last # None
    /\ sp_last.result # None
    /\ sp_last.result.total_cost = 9700
    /\ sp_last.result.net_profit = 200

\* C27: detect returns no signal when the older of the two books is more
\* than max_book_age_ms old, and an age of exactly max_book_age_ms does not
\* stop a signal: whenever detect is called on a profitable pair of books
\* whose older book is at most max_book_age_ms old it returns one.
C27_StaleBooksRejected ==
    (sp_last # None /\ sp_last.detect_called) =>
        /\ sp_last.age_ms > max_book_age_ms => sp_last.result = None
        /\ (sp_last.age_ms <= max_book_age_ms /\ SpreadIsProfitable(sp_last.books))
              => sp_last.result # None

\* A signal from books of different ages, the older exactly
\* max_book_age_ms old.
C27_Witness ==
    /\ sp_last # None
    /\ sp_last.result # None
    /\ sp_last.age_ms = max_book_age_ms
    /\ sp_last.books.yes_book.updated_at # sp_last.books.no_book.updated_at

\* C28: check_spreads produces no signal for a market whose
\* active_positions count is at max_positions or above at the moment it
\* decides on that market, whatever record_position, close_position and
\* update_order_book calls come before, between and after its steps.
C28_NoSignalAtMaxPositions ==
    /\ [](sp_last # None /\ sp_last.positions >= max_positions => sp_last.result = None)
    /\ [][Len(sp_check'.signals) > Len(sp_check.signals) =>
              PositionCount(sp_positions, Head(sp_check.todo).condition_id) < max_positions]_vars

\* A market at its position limit was checked with fresh, profitable books
\* after a position on it had been recorded and one closed again.
C28_Witness ==
    /\ sp_last # None
    /\ sp_last.positions >= max_positions
    /\ sp_last.age_ms <= max_book_age_ms
    /\ SpreadIsProfitable(sp_last.books)
    /\ sp_out # <<>>

(***************************************************************************)
(* PaperEngine shared by concurrent callers: submit_order, cancel_order    *)
(* and get_fills on one Arc<RwLock<Vec<Fill>>>.                            *)
(***************************************************************************)
MaxOrders == 3       \* calls of submit_order in one behaviour

\* Tasks holding the engine.
PaperCallers == {"c1", "c2"}

\* Orders submitted: a YES order and a NO order of different price and size.
PaperOrders ==
    {[token_id |-> "tokA", side |-> "Yes", price |-> 5500, size |-> 1],
     [token_id |-> "tokA_no", side |-> "No", price |-> 4500, size |-> 2]}

\* The Fill built by submit_order; OrderId::new_v4 is a value no earlier
\* call has produced.
FillOf(order, order_id, at) ==
    [order_id |-> order_id, token_id |-> order.token_id, side |-> order.side,
     price |-> order.price, size |-> order.size, timestamp |-> at,
     fees |-> (order.size * order.price * fee_rate) \div 10000]

\* A push that overwrites the newest fill instead of growing the log.
fills_push_overwrites(fs, fill) ==
    IF fs = <<>> THEN <<fill>> ELSE [fs EXCEPT ![Len(fs)] = fill]

\* fills.push(fill) under the write lock.
fills_push(fs, fill) == Append(fs, fill)

\* The call caller c has in progress, if any.
Calling(c) == c \in DOMAIN pe.calls /\ pe.calls[c].pc # "returned"

SetCall(c, call) == [d \in DOMAIN pe.calls \cup {c} |-> IF d = c THEN call ELSE pe.calls[d]]

PaperOthers == <<bookVars, recVars, procVars, netVars, momVars, lag_call, spreadVars,
                 ledgerVars, moreUnitVars,
                 dry_run, detector, active_markets, signals_generated, trades_executed,
                 subscribed_tokens, nTicks>>

\* submit_order up to the lock: the OrderId and the Fill are built.
SubmitBegin(c) ==
    /\ ~Calling(c)
    /\ pe.ids < MaxOrders
    /\ \E order \in PaperOrders :
          pe' = [pe EXCEPT !.ids = @ + 1,
                           !.last = "submit_order",
                           !.calls = SetCall(c, [pc |-> "built", order |-> order,
                                                 order_id |-> pe.ids + 1,
                                                 fill |-> FillOf(order, pe.ids + 1, now)])]
    /\ UNCHANGED <<PaperOthers, fills>>

\* submit_order under the write lock: the push.
SubmitPush(c) ==
    /\ Calling(c)
    /\ pe.calls[c].pc = "built"
    /\ fills' = fills_push(fills, pe.calls[c].fill)
    /\ pe' = [pe EXCEPT !.calls[c].pc = "pushed"]
    /\ UNCHANGED PaperOthers

\* submit_order returns Ok(order_id).
SubmitReturn(c) ==
    /\ Calling(c)
    /\ pe.calls[c].pc = "pushed"
    /\ pe' = [pe EXCEPT !.calls[c].pc = "returned"]
    /\ UNCHANGED <<PaperOthers, fills>>

\* cancel_order(id) for any id handed out so far.
CancelOrder ==
    /\ \E id \in 1..pe.ids : pe' = [pe EXCEPT !.last = "cancel_order"]
    /\ UNCHANGED <<PaperOthers, fills>>

\* get_fills: a clone of the log under the read lock.
GetFills ==
    /\ pe' = [pe EXCEPT !.seen = fills, !.last = "get_fills"]
    /\ UNCHANGED <<PaperOthers, fills>>

PaperInit == RunInit /\ dry_run = FALSE

PaperNext ==
    \/ \E c \in PaperCallers : SubmitBegin(c)
    \/ \E c \in PaperCallers : SubmitPush(c)
    \/ \E c \in PaperCallers : SubmitReturn(c)
    \/ CancelOrder
    \/ GetFills

SpecPaper == PaperInit /\ [][PaperNext]_vars

(***************************************************************************)
(* Paper-engine properties.                                                *)
(***************************************************************************)
\* Sequence a is the beginning of sequence b.
IsPrefix(a, b) == Len(a) <= Len(b) /\ SubSeq(b, 1, Len(a)) = a

\* C29: the fill log only grows at its end, one fill per step; a snapshot
\* returned by get_fills stays the beginning of the log; and for every
\* submit_order that has pushed or returned, exactly one fill carries its
\* order_id, and that fill has the order's price and size.
C29_FillLogAppendOnly ==
    /\ [][IsPrefix(fills, fills') /\ Len(fills') <= Len(fills) + 1]_vars
    /\ [](IsPrefix(pe.seen, fills))
    /\ [](\A c \in DOMAIN pe.calls :
              LET call == pe.calls[c]
                  mine == {i \in 1..Len(fills) : fills[i].order_id = call.order_id}
              IN  IF call.pc = "built" THEN mine = {}
                  ELSE /\ Cardinality(mine) = 1
                       /\ \A i \in mine : /\ fills[i].price = call.order.price
                                           /\ fills[i].size = call.order.size)

\* Two callers have both been answered while their pushes interleaved with
\* a get_fills and a cancel_order: the snapshot holds one fill, the log two.
C29_Witness ==
    /\ \A c \in PaperCallers : c \in DOMAIN pe.calls /\ pe.calls[c].pc = "returned"
    /\ Len(pe.seen) = 1
    /\ Len(fills) = 2
    /\ fills[1].order_id > fills[2].order_id
    /\ pe.last = "cancel_order"

(***************************************************************************)
(* PositionTracker: open, close and update_mark called by its owner.       *)
(* Prices, P&L and exposure are in 1/10000; sizes are whole contracts.     *)
(***************************************************************************)
MaxLedgerOps == 3    \* calls on the tracker in one behaviour
MaxPositions == 2    \* positions opened in one behaviour

\* The market and side of the signals positions are opened from.
LedgerSignals == {[market |-> "m1", side |-> side] : side \in {"Yes", "No"}}

\* Entry and exit fills: 0.40 or 0.60, one or two contracts, fees of 0.005.
LedgerFills ==
    {[price |-> p, size |-> z, fees |-> 50, timestamp |-> 0] :
        p \in {4000, 6000}, z \in {1, 2}}

\* PositionTracker::open: the tracker after the call and the Position
\* returned; Uuid::new_v4 is an id no earlier call has produced.
position_open(tr, signal, fill) ==
    LET position == [id |-> tr.ids + 1, market |-> signal.market, side |-> signal.side,
                     entry_price |-> fill.price, size |-> fill.size,
                     entry_time |-> fill.timestamp, unrealized_pnl |-> 0]
    IN  [tracker |-> [tr EXCEPT
                         !.ids = @ + 1,
                         !.total_exposure = @ + fill.size * fill.price,
                         !.open_positions =
                             [i \in DOMAIN tr.open_positions \cup {position.id} |->
                                 IF i = position.id THEN position
                                 ELSE tr.open_positions[i]]],
         result |-> position]

\* close computing the P&L of every position as for a YES position.
position_close_as_yes(tr, position_id, fill) ==
    IF position_id \notin DOMAIN tr.open_positions
    THEN [tracker |-> tr, result |-> None]
    ELSE LET position == tr.open_positions[position_id]
             closed == [position |-> position, exit_price |-> fill.price,
                        exit_time |-> fill.timestamp,
                        realized_pnl |->
                            (fill.price - position.entry_price) * position.size - fill.fees,
                        fees |-> fill.fees]
         IN  [tracker |-> [tr EXCEPT
                              !.open_positions =
                                  [i \in DOMAIN tr.open_positions \ {position_id} |->
                                      tr.open_positions[i]],
                              !.total_exposure = @ - fill.size * fill.price,
                              !.closed_positions = Append(@, closed)],
              result |-> closed]

\* PositionTracker::close: the tracker after the call and the
\* Option<ClosedPosition> returned.
position_close(tr, position_id, fill) ==
    IF position_id \notin DOMAIN tr.open_positions
    THEN [tracker |-> tr, result |-> None]
    ELSE LET position == tr.open_positions[position_id]
             pnl == IF position.side = "Yes"
                    THEN (fill.price - position.entry_price) * position.size
                    ELSE (position.entry_price - fill.price) * position.size
             closed == [position |-> position, exit_price |-> fill.price,
                        exit_time |-> fill.timestamp,
                        realized_pnl |-> pnl - fill.fees,
                        fees |-> fill.fees]
         IN  [tracker |-> [tr EXCEPT
                              !.open_positions =
                                  [i \in DOMAIN tr.open_positions \ {position_id} |->
                                      tr.open_positions[i]],
                              !.total_exposure = @ - fill.size * fill.price,
                              !.closed_positions = Append(@, closed)],
              result |-> closed]

\* PositionTracker::update_mark.
update_mark(tr, market_id, current_price) ==
    [tr EXCEPT !.open_positions =
        [i \in DOMAIN tr.open_positions |->
            LET position == tr.open_positions[i]
            IN  IF position.market = market_id
                THEN [position EXCEPT !.unrealized_pnl =
                         IF position.side = "Yes"
                         THEN (current_price - position.entry_price) * position.size
                         ELSE (position.entry_price - current_price) * position.size]
                ELSE position]]

LedgerOthers == <<bookVars, recVars, runVars, procVars, netVars, momVars, lag_call,
                  spreadVars, pe, moreUnitVars>>

LedgerOpen ==
    /\ tr_last.n < MaxLedgerOps
    /\ tracker.ids < MaxPositions
    /\ \E signal \in LedgerSignals, fill \in LedgerFills :
          LET r == position_open(tracker, signal, fill)
          IN  /\ tracker' = r.tracker
              /\ tr_last' = [n |-> tr_last.n + 1, op |-> "open", fill |-> fill,
                             result |-> r.result]
    /\ UNCHANGED LedgerOthers

\* close with the id of any position opened so far, or of none.
LedgerClose ==
    /\ tr_last.n < MaxLedgerOps
    /\ \E position_id \in 0..tracker.ids, fill \in LedgerFills :
          LET r == position_close(tracker, position_id, fill)
          IN  /\ tracker' = r.tracker
              /\ tr_last' = [n |-> tr_last.n + 1, op |-> "close",
                             position_id |-> position_id, fill |-> fill,
                             result |-> r.result]
    /\ UNCHANGED LedgerOthers

LedgerUpdateMark ==
    /\ tr_last.n < MaxLedgerOps
    /\ \E market_id \in {"m1", "m2"}, current_price \in {4000, 6000} :
          /\ tracker' = update_mark(tracker, market_id, current_price)
          /\ tr_last' = [n |-> tr_last.n + 1, op |-> "update_mark"]
    /\ UNCHANGED LedgerOthers

LedgerInit == RunInit /\ dry_run = FALSE

LedgerNext == LedgerOpen \/ LedgerClose \/ LedgerUpdateMark

SpecLedger == LedgerInit /\ [][LedgerNext]_vars

(***************************************************************************)
(* Ledger properties.                                                      *)
(***************************************************************************)
\* C30: a close of an open position takes exactly that position out of
\* open_positions, leaves the others as they were, and appends one
\* ClosedPosition holding it, with realized_pnl (exit - entry) * size - fees
\* for YES and (entry - exit) * size - fees for NO, which is also what it
\* returns; a close of an id that is not open returns None and leaves the
\* tracker as it was; so no position is in closed_positions twice, and none
\* is both open and closed.
C30_CloseRemovesAndRecordsOnce ==
    /\ [][(tr_last'.n # tr_last.n /\ tr_last'.op = "close") =>
              LET id == tr_last'.position_id
                  fill == tr_last'.fill
              IN  IF id \in DOMAIN tracker.open_positions
                  THEN LET position == tracker.open_positions[id]
                           closed == tr_last'.result
                       IN  /\ DOMAIN tracker'.open_positions =
                                  DOMAIN tracker.open_positions \ {id}
                           /\ \A i \in DOMAIN tracker'.open_positions :
                                  tracker'.open_positions[i] = tracker.open_positions[i]
                           /\ tracker'.closed_positions =
                                  Append(tracker.closed_positions, closed)
                           /\ closed.position = position
                           /\ closed.exit_price = fill.price
                           /\ closed.realized_pnl =
                                  IF position.side = "Yes"
                                  THEN (fill.price - position.entry_price) * position.size
                                           - fill.fees
                                  ELSE (position.entry_price - fill.price) * position.size
                                           - fill.fees
                  ELSE /\ tr_last'.result = None
                       /\ tracker' = tracker]_vars
    /\ [](\A i, j \in 1..Len(tracker.closed_positions) :
              tracker.closed_positions[i].position.id =
                  tracker.closed_positions[j].position.id => i = j)
    /\ [](\A i \in 1..Len(tracker.closed_positions) :
              tracker.closed_positions[i].position.id \notin DOMAIN tracker.open_positions)

\* A NO position closed at a profit, then a second close of the same id
\* that returned None.
C30_Witness ==
    /\ tr_last.op = "close"
    /\ tr_last.result = None
    /\ Len(tracker.closed_positions) = 1
    /\ tracker.closed_positions[1].position.id = tr_last.position_id
    /\ tracker.closed_positions[1].position.side = "No"
    /\ tracker.closed_positions[1].realized_pnl > 0

\* The sum of entry_price * size over the positions ids of ps.
RECURSIVE EntryCost(_, _)
EntryCost(ps, ids) ==
    IF ids = {} THEN 0
    ELSE LET i == CHOOSE i \in ids : TRUE
         IN  ps[i].entry_price * ps[i].size + EntryCost(ps, ids \ {i})

\* C36: total_exposure is the sum of entry_price * size over the open
\* positions, so it is 0 when no position is open and it is never negative.
C36_ExposureIsOpenEntryCost ==
    /\ tracker.total_exposure =
           EntryCost(tracker.open_positions, DOMAIN tracker.open_positions)
    /\ tracker.open_positions = <<>> => tracker.total_exposure = 0
    /\ tracker.total_exposure >= 0

(***************************************************************************)
(* DrawdownMonitor: update, reset_daily and should_halt called by its      *)
(* owner.  Equity is in USD; a drawdown is the exact quotient num / den;   *)
(* the limits are in 1/1000.                                               *)
(***************************************************************************)
MaxMonitorOps == 4   \* calls on the monitor in one behaviour

\* PositionLimits::default.
max_daily_loss_pct == 50
max_drawdown_pct == 100

\* The equity values reported to the monitor.
Equities == {0, 850, 900, 940, 950, 1000, 1100}

\* DrawdownMonitor::update.
monitor_update(m, new_equity) ==
    [m EXCEPT !.current_equity = new_equity,
              !.peak_equity = IF new_equity > @ THEN new_equity ELSE @,
              !.daily_pnl = new_equity - m.daily_start_equity]

\* DrawdownMonitor::current_drawdown.
current_drawdown(m) ==
    IF m.peak_equity = 0 THEN [num |-> 0, den |-> 1]
    ELSE [num |-> m.peak_equity - m.current_equity, den |-> m.peak_equity]

\* DrawdownMonitor::daily_drawdown.
daily_drawdown(m) ==
    IF m.daily_start_equity = 0 THEN [num |-> 0, den |-> 1]
    ELSE [num |-> -m.daily_pnl, den |-> m.daily_start_equity]

\* q > pct for a quotient with a positive denominator and a limit in 1/1000.
Exceeds(q, pct) == q.num * 1000 > pct * q.den

\* should_halt testing the drawdown from the peak before the daily loss.
should_halt_peak_first(m) ==
    IF Exceeds(current_drawdown(m), max_drawdown_pct)
    THEN [reason |-> "MaxDrawdownReached", value |-> current_drawdown(m)]
    ELSE IF Exceeds(daily_drawdown(m), max_daily_loss_pct)
    THEN [reason |-> "MaxDailyLossReached", value |-> daily_drawdown(m)]
    ELSE None

\* DrawdownMonitor::should_halt with PositionLimits::default.
should_halt(m) ==
    LET daily_dd == daily_drawdown(m)
        drawdown == current_drawdown(m)
    IN  IF Exceeds(daily_dd, max_daily_loss_pct)
        THEN [reason |-> "MaxDailyLossReached", value |-> daily_dd]
        ELSE IF Exceeds(drawdown, max_drawdown_pct)
        THEN [reason |-> "MaxDrawdownReached", value |-> drawdown]
        ELSE None

\* DrawdownMonitor::reset_daily.
reset_daily(m) ==
    [m EXCEPT !.daily_start_equity = m.current_equity, !.daily_pnl = 0]

MonitorOthers == <<bookVars, recVars, runVars, procVars, netVars, momVars, lag_call,
                   spreadVars, pe, ledgerVars, storeVars, loopVars, crossVars>>

MonitorUpdate ==
    /\ Len(dm_calls.ops) < MaxMonitorOps
    /\ \E new_equity \in Equities :
          /\ monitor' = monitor_update(monitor, new_equity)
          /\ dm_calls' = [dm_calls EXCEPT
                              !.ops = Append(@, [op |-> "update", equity |-> new_equity])]
    /\ UNCHANGED MonitorOthers

MonitorResetDaily ==
    /\ Len(dm_calls.ops) < MaxMonitorOps
    /\ monitor' = reset_daily(monitor)
    /\ dm_calls' = [dm_calls EXCEPT !.ops = Append(@, [op |-> "reset_daily"])]
    /\ UNCHANGED MonitorOthers

MonitorShouldHalt ==
    /\ Len(dm_calls.ops) < MaxMonitorOps
    /\ dm_calls' = [ops |-> Append(dm_calls.ops, [op |-> "should_halt"]),
                    halt |-> should_halt(monitor)]
    /\ UNCHANGED <<monitor, MonitorOthers>>

MonitorInit == RunInit /\ dry_run = FALSE

MonitorNext == MonitorUpdate \/ MonitorResetDaily \/ MonitorShouldHalt

SpecMonitor == MonitorInit /\ [][MonitorNext]_vars

(***************************************************************************)
(* Drawdown properties.                                                    *)
(***************************************************************************)
\* The equity reported by the last of the first n calls, the initial equity
\* when none of them is an update.
EquityAfter(ops, n) ==
    LET updates == {i \in 1..n : ops[i].op = "update"}
    IN  IF updates = {} THEN initial_equity
        ELSE ops[CHOOSE i \in updates : \A j \in updates : j <= i].equity

\* C32: a should_halt made after any updates and daily resets returns
\* MaxDailyLossReached when the loss since the start of the day (the equity
\* at the last reset_daily, or the initial equity) is more than
\* max_daily_loss_pct of it, whether or not the drawdown limit is exceeded
\* too; otherwise MaxDrawdownReached exactly when the fall from the highest
\* equity seen is more than max_drawdown_pct of it; otherwise None.  A zero
\* base gives a zero drawdown.
C32_DailyLossBeforeDrawdown ==
    (dm_calls.ops # <<>> /\ dm_calls.ops[Len(dm_calls.ops)].op = "should_halt") =>
        LET ops == dm_calls.ops
            n == Len(ops)
            resets == {i \in 1..n : ops[i].op = "reset_daily"}
            current == EquityAfter(ops, n)
            day_start == IF resets = {} THEN initial_equity
                         ELSE EquityAfter(ops, CHOOSE i \in resets : \A j \in resets : j <= i)
            seen == {initial_equity} \cup {ops[i].equity : i \in {j \in 1..n : ops[j].op = "update"}}
            peak == CHOOSE e \in seen : \A f \in seen : f <= e
            daily_over == day_start # 0 /\
                          (day_start - current) * 1000 > max_daily_loss_pct * day_start
            peak_over == peak # 0 /\ (peak - current) * 1000 > max_drawdown_pct * peak
        IN  /\ daily_over =>
                (dm_calls.halt # None /\ dm_calls.halt.reason = "MaxDailyLossReached")
            /\ (~daily_over /\ peak_over) =>
                (dm_calls.halt # None /\ dm_calls.halt.reason = "MaxDrawdownReached")
            /\ (~daily_over /\ ~peak_over) => dm_calls.halt = None

\* Both limits are exceeded and the daily loss is the one reported.
C32_Witness ==
    /\ dm_calls.halt # None
    /\ dm_calls.halt.reason = "MaxDailyLossReached"
    /\ dm_calls.ops[Len(dm_calls.ops)].op = "should_halt"
    /\ Exceeds(current_drawdown(monitor), max_drawdown_pct)
    /\ \E i \in 1..Len(dm_calls.ops) : dm_calls.ops[i].op = "reset_daily"

(***************************************************************************)
(* The book store of the trading loop: one update task per depth           *)
(* subscription takes books off its channel and applies them under the     *)
(* write lock, while the trading loop reads the store under the read lock. *)
(***************************************************************************)
MaxDelivered == 3    \* books the depth feeds deliver in one behaviour
StoreCapacity == 2   \* PolymarketConfig.buffer_size, the channel's capacity
MaxReaders == 1      \* read guards held at once (the trading loop)

\* The n-th book a subscription delivers for its token: updated_at tells the
\* books of a token apart.
StoreBook(token_id, n, ask) ==
    [token_id |-> token_id, bids |-> <<>>, asks |-> <<[price |-> ask, size |-> 1]>>,
     updated_at |-> n]

\* A write guard granted while another task still holds one.
rwlock_can_write_unfair(lock) == lock.readers = 0

\* RwLock::write is granted when no guard is held.
rwlock_can_write(lock) == lock.writer = NoTask /\ lock.readers = 0

\* RwLock::read is granted when no write guard is held.
rwlock_can_read(lock) == lock.writer = NoTask

StoreOthers == <<recVars, runVars, procVars, netVars, momVars, lag_call, spreadVars, pe,
                 ledgerVars, riskVars, loopVars, crossVars, lastMsg, nUpdates>>

\* run_subscription_loop: tx.send(book).await of a book for the token of the
\* subscription; the send waits while the channel is full.
StoreDeliver(s) ==
    /\ Len(store_hist.delivered["tokA"]) + Len(store_hist.delivered["tokB"]) < MaxDelivered
    /\ Len(store_rx[s]) < StoreCapacity
    /\ \E ask \in {4500, 7000} :
          LET token_id == SubscribedToken[s]
              book == StoreBook(token_id, Len(store_hist.delivered[token_id]) + 1, ask)
          IN  /\ store_rx' = [store_rx EXCEPT ![s] = Append(@, book)]
              /\ store_hist' = [store_hist EXCEPT !.delivered[token_id] = Append(@, book)]
    /\ UNCHANGED <<books, store_tasks, store_lock, StoreOthers>>

\* `while let Some(book) = orderbook_rx.recv().await`.
StoreRecv(s) ==
    /\ store_tasks[s].pc = "recv"
    /\ store_rx[s] # <<>>
    /\ store_tasks' = [store_tasks EXCEPT ![s] = [pc |-> "record", book |-> Head(store_rx[s])]]
    /\ store_rx' = [store_rx EXCEPT ![s] = Tail(@)]
    /\ UNCHANGED <<books, store_lock, store_hist, StoreOthers>>

\* rec.record_orderbook_async(book.clone()).await has returned (or capture
\* is off); the task goes on to books_clone.write().await.
StoreRecord(s) ==
    /\ store_tasks[s].pc = "record"
    /\ store_tasks' = [store_tasks EXCEPT ![s].pc = "write"]
    /\ UNCHANGED <<books, store_rx, store_lock, store_hist, StoreOthers>>

\* books_clone.write().await returns the guard.
StoreWriteLock(s) ==
    /\ store_tasks[s].pc = "write"
    /\ rwlock_can_write(store_lock)
    /\ store_lock' = [store_lock EXCEPT !.writer = s]
    /\ store_tasks' = [store_tasks EXCEPT ![s].pc = "update"]
    /\ UNCHANGED <<books, store_rx, store_hist, StoreOthers>>

\* manager.update(book); the guard is dropped at the end of the iteration.
StoreUpdate(s) ==
    /\ store_tasks[s].pc = "update"
    /\ LET book == store_tasks[s].book
       IN  /\ books' = update(books, book)
           /\ store_hist' = [store_hist EXCEPT !.applied[book.token_id] = Append(@, book)]
    /\ store_lock' = [store_lock EXCEPT !.writer = NoTask]
    /\ store_tasks' = [store_tasks EXCEPT ![s] = [pc |-> "recv", book |-> None]]
    /\ UNCHANGED <<store_rx, StoreOthers>>

\* The trading loop: order_book_manager.read().await.
StoreReadLock ==
    /\ store_lock.readers < MaxReaders
    /\ rwlock_can_read(store_lock)
    /\ store_lock' = [store_lock EXCEPT !.readers = @ + 1]
    /\ UNCHANGED <<books, store_rx, store_tasks, store_hist, StoreOthers>>

\* The trading loop drops its read guard.
StoreReadUnlock ==
    /\ store_lock.readers > 0
    /\ store_lock' = [store_lock EXCEPT !.readers = @ - 1]
    /\ UNCHANGED <<books, store_rx, store_tasks, store_hist, StoreOthers>>

StoreInit == RunInit /\ dry_run = FALSE

StoreNext ==
    \/ \E s \in Subscriptions :
          StoreDeliver(s) \/ StoreRecv(s) \/ StoreRecord(s) \/ StoreWriteLock(s) \/ StoreUpdate(s)
    \/ StoreReadLock
    \/ StoreReadUnlock

SpecStore == StoreInit /\ [][StoreNext]_vars

(***************************************************************************)
(* Book-store concurrency properties.                                      *)
(***************************************************************************)
\* C33: for every token the books applied to the store are, in order and
\* with none left out or repeated, the first of the books the depth feed
\* delivered for it; at most one update task is applying a book at a time,
\* and none while the trading loop holds a read guard; and the store only
\* changes in the step of the task that holds the write guard.
C33_PerTokenUpdatesInOrder ==
    /\ [](\A t \in DOMAIN store_hist.applied :
              IsPrefix(store_hist.applied[t], store_hist.delivered[t]))
    /\ [](Cardinality({s \in Subscriptions : store_tasks[s].pc = "update"}) <= 1)
    /\ [](\A s \in Subscriptions :
              store_tasks[s].pc = "update" =>
                  store_lock.writer = s /\ store_lock.readers = 0)
    /\ [][books' # books =>
              /\ store_lock.writer # NoTask
              /\ store_tasks[store_lock.writer].pc = "update"
              /\ store_tasks'[store_lock.writer].pc = "recv"]_vars

\* Two books of one token have been applied in order while the task of the
\* other subscription waits for the write guard behind a reader.
C33_Witness ==
    /\ Len(store_hist.applied["tokA"]) = 2
    /\ store_hist.applied["tokA"][1].asks # store_hist.applied["tokA"][2].asks
    /\ store_tasks["s2"].pc = "write"
    /\ store_lock.readers = 1

(***************************************************************************)
(* The long-running loops and what ends them.  Each loop is followed from  *)
(* the top of its body; what it does with an item it receives is left to   *)
(* the models above.                                                       *)
(***************************************************************************)
MaxQueued == 1       \* items waiting in an upstream channel

LoopOthers == <<bookVars, recVars, runVars, procVars, netVars, momVars, lag_call,
                spreadVars, pe, ledgerVars, riskVars, storeVars, crossVars>>

\* recv() returns None: the channel is closed and drained.
RecvNone(l) == ~upstream[l].open /\ upstream[l].queued = 0

\* A sender puts an item on the channel of loop l.
LoopSend(l) ==
    /\ upstream[l].open
    /\ upstream[l].queued < MaxQueued
    /\ upstream' = [upstream EXCEPT ![l].queued = @ + 1]
    /\ UNCHANGED <<loops, interrupted, signal_rx_open, LoopOthers>>

\* The last sender of the channel of loop l is dropped.
LoopCloseUpstream(l) ==
    /\ upstream[l].open
    /\ upstream' = [upstream EXCEPT ![l].open = FALSE]
    /\ UNCHANGED <<loops, interrupted, signal_rx_open, LoopOthers>>

\* Ctrl+C is delivered.
LoopInterrupt ==
    /\ ~interrupted
    /\ interrupted' = TRUE
    /\ UNCHANGED <<loops, upstream, signal_rx_open, LoopOthers>>

\* The consumer of the orchestrator's signals drops its receiver.
DropSignalReceiver ==
    /\ signal_rx_open
    /\ signal_rx_open' = FALSE
    /\ UNCHANGED <<loops, upstream, interrupted, LoopOthers>>

\* A receiving branch that takes an item and goes round the loop; a closed
\* channel still hands out the items queued in it.
LoopRecvItem(l) ==
    /\ loops[l] = "select"
    /\ upstream[l].queued > 0
    /\ upstream' = [upstream EXCEPT ![l].queued = @ - 1]
    /\ UNCHANGED <<loops, interrupted, signal_rx_open, LoopOthers>>

\* CaptureArgs::execute, `None =>`: warn, sleep one second, loop again.
CaptureRecvNone ==
    /\ loops["capture"] = "select"
    /\ RecvNone("capture")
    /\ loops' = [loops EXCEPT !["capture"] = "sleep"]
    /\ UNCHANGED <<upstream, interrupted, signal_rx_open, LoopOthers>>

CaptureSleepElapsed ==
    /\ loops["capture"] = "sleep"
    /\ loops' = [loops EXCEPT !["capture"] = "select"]
    /\ UNCHANGED <<upstream, interrupted, signal_rx_open, LoopOthers>>

\* CaptureArgs::execute, the signal::ctrl_c() branch: break.
CaptureCtrlC ==
    /\ loops["capture"] = "select"
    /\ interrupted
    /\ loops' = [loops EXCEPT !["capture"] = "done"]
    /\ UNCHANGED <<upstream, interrupted, signal_rx_open, LoopOthers>>

\* The discovery task: refresh_interval.tick().await, then the fetch and
\* what follows it, then the next tick; the loop has no break.
RefreshTick ==
    /\ loops["refresh"] = "select"
    /\ loops' = [loops EXCEPT !["refresh"] = "fetch"]
    /\ UNCHANGED <<upstream, interrupted, signal_rx_open, LoopOthers>>

RefreshFetched ==
    /\ loops["refresh"] = "fetch"
    /\ loops' = [loops EXCEPT !["refresh"] = "select"]
    /\ UNCHANGED <<upstream, interrupted, signal_rx_open, LoopOthers>>

\* SpreadOrchestrator::run, the interval.tick() branch: check_spreads
\* returns some signals or none.  (The branch `Some(book) = book_rx.recv()`
\* is disabled when recv returns None.)
OrchestratorTick ==
    /\ loops["orchestrator"] = "select"
    /\ \E signals \in BOOLEAN :
          loops' = [loops EXCEPT !["orchestrator"] = IF signals THEN "send" ELSE "select"]
    /\ UNCHANGED <<upstream, interrupted, signal_rx_open, LoopOthers>>

\* signal_tx.send(signal).await: the task returns when the receiver is gone.
OrchestratorSend ==
    /\ loops["orchestrator"] = "send"
    /\ loops' = [loops EXCEPT !["orchestrator"] = IF signal_rx_open THEN "select" ELSE "done"]
    /\ UNCHANGED <<upstream, interrupted, signal_rx_open, LoopOthers>>

\* run_subscription_loop, `None =>`: break.
SubscriptionRecvNone ==
    /\ loops["subscription"] = "select"
    /\ RecvNone("subscription")
    /\ loops' = [loops EXCEPT !["subscription"] = "done"]
    /\ UNCHANGED <<upstream, interrupted, signal_rx_open, LoopOthers>>

\* run_subscription_loop, the tokio::signal::ctrl_c() branch: break.
SubscriptionCtrlC ==
    /\ loops["subscription"] = "select"
    /\ interrupted
    /\ loops' = [loops EXCEPT !["subscription"] = "done"]
    /\ UNCHANGED <<upstream, interrupted, signal_rx_open, LoopOthers>>

\* run_price_writer, `None =>`: flush what is buffered, break.
LoopWriterRecvNone ==
    /\ loops["writer"] = "select"
    /\ RecvNone("writer")
    /\ loops' = [loops EXCEPT !["writer"] = "done"]
    /\ UNCHANGED <<upstream, interrupted, signal_rx_open, LoopOthers>>

LoopInit == RunInit /\ dry_run = FALSE

LoopNext ==
    \/ \E l \in WithUpstream : LoopSend(l) \/ LoopCloseUpstream(l) \/ LoopRecvItem(l)
    \/ LoopInterrupt
    \/ DropSignalReceiver
    \/ CaptureRecvNone
    \/ CaptureSleepElapsed
    \/ CaptureCtrlC
    \/ RefreshTick
    \/ RefreshFetched
    \/ OrchestratorTick
    \/ OrchestratorSend
    \/ SubscriptionRecvNone
    \/ SubscriptionCtrlC
    \/ LoopWriterRecvNone

\* Every task is scheduled whenever one of its steps is ready, and its
\* timers elapse; select! polls its branches in random order, so a ctrl_c
\* branch that is ready again and again is taken in the end.  Senders, the
\* closing of channels and the interrupt are the environment's and are
\* subject to no fairness.
LoopFairness ==
    /\ \A l \in WithUpstream : WF_vars(LoopRecvItem(l))
    /\ WF_vars(CaptureRecvNone \/ CaptureSleepElapsed)
    /\ SF_vars(CaptureCtrlC)
    /\ WF_vars(RefreshTick \/ RefreshFetched)
    /\ WF_vars(OrchestratorTick \/ OrchestratorSend)
    /\ WF_vars(SubscriptionRecvNone)
    /\ SF_vars(SubscriptionCtrlC)
    /\ WF_vars(LoopWriterRecvNone)

SpecLoops == LoopInit /\ [][LoopNext]_vars /\ LoopFairness

(***************************************************************************)
(* Termination properties.                                                 *)
(***************************************************************************)
\* C34: every loop ends once the channel it receives from has been closed,
\* and once an interrupt has been delivered.
C34_LoopsTerminate ==
    /\ \A l \in WithUpstream : (~upstream[l].open) ~> (loops[l] = "done")
    /\ \A l \in Loops : interrupted ~> (loops[l] = "done")

(***************************************************************************)
(* The trading loop with two active markets of different strikes: on each  *)
(* tick the one MomentumDetector of the loop is updated and then asked     *)
(* about every market in turn (det.detect begins with                      *)
(* momentum_detector.detect(market.open_price)).                           *)
(***************************************************************************)
\* Two markets open throughout the behaviour, inside their trading window.
CrossMarkets ==
    [m \in {"m1", "m2"} |->
        [condition_id |-> m, open_price |-> IF m = "m1" THEN 1000 ELSE 1020,
         open_time |-> 0 - MinSecondsAfterOpen,
         close_time |-> MaxTime + MaxSecondsBeforeClose]]

\* Spot prices: 1 % above the first strike and about 1 % below the second,
\* and the two strikes.
CrossPrices == {1010, 1000, 1020}

\* The for loop over markets.values(): the detector after each detect and
\* what detect returned for each market.
RECURSIVE DetectMarkets(_, _, _)
DetectMarkets(st, order, at) ==
    IF order = <<>> THEN st
    ELSE LET market == CrossMarkets[Head(order)]
             r == momentum_detect(st.det, market.open_price)
         IN  IF \/ at - market.open_time < MinSecondsAfterOpen
                \/ market.close_time - at < MaxSecondsBeforeClose
             THEN DetectMarkets(st, Tail(order), at)
             ELSE DetectMarkets(
                      [det |-> r.det,
                       returned |-> [st.returned EXCEPT ![Head(order)] = r.momentum]],
                      Tail(order), at)

\* One iteration of the trading loop: update_price, then every market.
CrossTick ==
    /\ nTicks < MaxTicks
    /\ nTicks' = nTicks + 1
    /\ \E price \in CrossPrices, order \in IterationOrders(DOMAIN CrossMarkets) :
          LET st == DetectMarkets(
                        [det |-> update_price(detector, now, price),
                         returned |-> [m \in DOMAIN CrossMarkets |-> None]],
                        order, now)
              own == [m \in DOMAIN CrossMarkets |->
                         momentum_detect(update_price(cross.own[m], now, price),
                                         CrossMarkets[m].open_price)]
          IN  /\ detector' = st.det
              /\ cross' = [shared |-> st.returned,
                           alone |-> [m \in DOMAIN CrossMarkets |-> own[m].momentum],
                           own |-> [m \in DOMAIN CrossMarkets |-> own[m].det]]
    /\ UNCHANGED <<bookVars, recVars, procVars, netVars, momVars, lag_call, spreadVars, pe,
                   ledgerVars, riskVars, storeVars, loopVars, dry_run, active_markets, fills,
                   signals_generated, trades_executed, subscribed_tokens>>

CrossInit == RunInit /\ dry_run = FALSE

CrossNext == CrossTick \/ Tick

SpecCross == CrossInit /\ [][CrossNext]_vars

\* C35: on every tick, what detect returns for a market is what a detector
\* fed the same ticks and asked about that market only returns: the other
\* market's evaluation does not change whether or when it is confirmed.
C35_ConfirmationPerMarket ==
    \A m \in DOMAIN CrossMarkets : cross.shared[m] = cross.alone[m]

(***************************************************************************)
(* Live-loop properties.                                                   *)
(***************************************************************************)
\* C1: no order reaches the execution engine while the concurrent-position
\* cap is reached: every fill opens a position and none is closed, so the
\* fill log never holds more than max_concurrent_positions fills.
C1_NoOrderAtPositionCap == Len(fills) <= max_concurrent_positions

\* C2: in dry-run mode the fill log stays empty and no trade is counted,
\* whatever ticks, books and signals occur; fills exist only when not in
\* dry-run.
C2_DryRunNeverSubmits == dry_run => (fills = <<>> /\ trades_executed = 0)

C2_Witness == dry_run /\ signals_generated > 0 /\ fills = <<>>

\* C20: a MomentumSignal returned by detect has a move between min_move_pct
\* and max_move_pct of the strike, both included, and its direction is Up
\* exactly when the current price is above the strike.
C20_SignalWithinMoveBounds ==
    emitted # None =>
        LET abs_diff == Abs(emitted.current_price - emitted.strike_price)
        IN  /\ min_move_pct * emitted.strike_price <= abs_diff * 1000
            /\ abs_diff * 1000 <= max_move_pct * emitted.strike_price
            /\ min_move_pct * 10 <= emitted.move_pct
            /\ emitted.move_pct <= max_move_pct * 10
            /\ emitted.direction \in {"Up", "Down"}
            /\ emitted.direction = "Up" <=> emitted.current_price > emitted.strike_price

C20_Witness ==
    /\ emitted # None
    /\ emitted.direction = "Down"
    /\ emitted.strike_price = 1000
    /\ emitted.current_price = 950
    /\ emitted.move_pct = max_move_pct * 10

\* C21: detect returns a MomentumSignal exactly when the observation it looks
\* at is a move Up or Down within the thresholds and the unbroken run of
\* observations of that direction it belongs to (observations above
\* max_move_pct are set aside as data errors) began at least
\* ConfirmationSeconds before it; a move below min_move_pct or a move in the
\* other direction ends the run, so the period is counted from the first
\* observation after it.
C21_ConfirmedAfterUninterruptedRun ==
    observed # <<>> =>
        LET n == Len(observed)
            last == observed[n]
            unbroken == {i \in 1..n :
                            /\ observed[i].class = last.class
                            /\ \A j \in i..n : observed[j].class \in {last.class, "extreme"}}
            start == CHOOSE i \in unbroken : \A k \in unbroken : i <= k
        IN  IF last.class \in {"Up", "Down"}
            THEN /\ emitted # None <=>
                        /\ start < n
                        /\ last.ts - observed[start].ts >= ConfirmationSeconds
                 /\ emitted # None => emitted.direction = last.class
            ELSE emitted = None

\* A signal confirmed exactly ConfirmationSeconds after the run restarted
\* behind a move below min_move_pct.
C21_Witness ==
    /\ emitted # None
    /\ Len(observed) = 3
    /\ observed[1].class = "small"
    /\ observed[2].class = observed[3].class
    /\ observed[3].ts - observed[2].ts = ConfirmationSeconds

\* C22: a call of detect that finds a move above max_move_pct returns None
\* and leaves the detector (prices, last_direction and direction_start) as
\* it was before the call.
C22_ExtremeMoveLeavesState ==
    [][(observed' # observed /\ observed'[Len(observed')].class = "extreme")
          => (emitted' = None /\ detector' = detector)]_vars

\* An extreme move was seen while a direction was being confirmed.
C22_Witness ==
    /\ observed # <<>>
    /\ observed[Len(observed)].class = "extreme"
    /\ detector.last_direction # NoDirection
    /\ detector.direction_start # NoTime

\* C23: after update(ts, price) the window holds no observation older than
\* ts - window, ts being the timestamp of the observation added last.
C23_WindowHoldsOnlyRecent ==
    \A i \in 1..Len(detector.prices) :
        detector.prices[i].ts >=
            detector.prices[Len(detector.prices)].ts - WindowSeconds

\* C19: a market of the directory whose YES token has been forwarded to a
\* depth-feed subscription has had its NO token forwarded as well.
C19_BothTokensForwarded ==
    \A c \in DOMAIN active_markets :
        active_markets[c].yes_token_id \in subscribed_tokens =>
            active_markets[c].no_token_id \in subscribed_tokens

====
